---- MODULE Spec2Model ----
(***************************************************************************)
(* Conjunction assessment core of the SSA service: the fusion engine that  *)
(* supplies object states, the covariance model, the closest-approach      *)
(* search, the collision-probability estimator, the event store behind the *)
(* /conjunction/assess and /cdm/export endpoints, the two-stage           *)
(* conjunction pipeline, the CDM serializer and the analytic propagator.   *)
(*                                                                         *)
(* Numbers.  The program computes with IEEE doubles; the model computes    *)
(* with exact integers in these units:                                     *)
(*   - state positions in PosUnit (1.25 km), velocities in PosUnit/s;      *)
(*   - covariance position block in m^2, velocity block in (mm/s)^2,       *)
(*     cross block in m*mm/s; propagation times are multiples of           *)
(*     TimeScale seconds so that dt (s) * 1 mm/s is a whole number of m;   *)
(*   - hard-body radius in m;                                              *)
(*   - probabilities in fixed point, ONE = 2^28 standing for 1.0;          *)
(*   - Euclidean norms are carried as their squares (miss2, rel_speed2):   *)
(*     every comparison of two norms in the code is the same comparison of *)
(*     the squares, and the estimator only uses d*d.                       *)
(***************************************************************************)
EXTENDS Integers, Naturals, Sequences, FiniteSets, TLC

Min(a, b) == IF a <= b THEN a ELSE b
Max(a, b) == IF a >= b THEN a ELSE b

(***************************************************************************)
(* Fixed-point arithmetic on [0, 1] with 28 fractional bits.               *)
(***************************************************************************)
FixB == 2^14
ONE == FixB * FixB

\* floor(a * b / ONE) for 0 <= a, b <= ONE (two 14-bit limbs, no overflow)
FixMul(a, b) ==
    LET a1 == a \div FixB
        a0 == a % FixB
        b1 == b \div FixB
        b0 == b % FixB
    IN  a1 * b1 + ((a1 * b0 + a0 * b1 + ((a0 * b0) \div FixB)) \div FixB)

\* <<min(cap, floor(a*b/c)), (a*b) mod c>> for 0 <= a < c < 2^30, b < 2^14+1
RECURSIVE MulDivQR(_, _, _, _)
MulDivQR(a, b, c, cap) ==
    IF b = 0 THEN <<0, 0>>
    ELSE LET h  == MulDivQR(a, b \div 2, c, cap)
             r2 == 2 * h[2]
             q2 == 2 * h[1] + (r2 \div c)
             r3 == (r2 % c) + (IF b % 2 = 1 THEN a ELSE 0)
             q3 == q2 + (r3 \div c)
         IN  <<Min(q3, cap), r3 % c>>

\* <<min(cap, floor(a*b/c)), (a*b) mod c>> for a >= 0, 0 <= b < 2^28+1,
\* 0 < c < 2^30; the remainder is exact whenever the quotient is below cap
MulDiv(a, b, c, cap) ==
    LET qa == a \div c
        ra == a % c
        h1 == MulDivQR(ra, b \div FixB, c, cap)
        h2 == MulDivQR(h1[2], FixB, c, cap)
        h3 == MulDivQR(ra, b % FixB, c, cap)
        rr == h2[2] + h3[2]
    IN  IF qa > 0 /\ b > cap \div qa THEN <<cap, 0>>
        ELSE IF h1[1] > cap \div FixB THEN <<cap, 0>>
        ELSE <<Min(cap, qa * b + h1[1] * FixB + h2[1] + h3[1] + (rr \div c)), rr % c>>

\* sum of the Taylor terms T^n/n!, n = 1..10, added to acc (T <= ONE/2)
RECURSIVE ExpSeries(_, _, _, _)
ExpSeries(T, n, term, acc) ==
    IF n > 10 \/ term = 0 THEN acc
    ELSE LET nt == FixMul(term, T) \div n
         IN  ExpSeries(T, n + 1, nt, acc + nt)

RECURSIVE SquareTimes(_, _)
SquareTimes(y, k) == IF k = 0 THEN y ELSE SquareTimes(FixMul(y, y), k - 1)

\* arguments of exp at or beyond XMax give 0 at 28 fractional bits
XMax == 2^5

\* math.exp(-(Q + F/ONE)) in fixed point: exp(-x) = (1 / exp(x/64))^64
ExpNeg(Q, F) ==
    IF Q >= XMax THEN 0
    ELSE LET T  == Q * (ONE \div 64) + (F \div 64)
             E  == ExpSeries(T, 1, ONE, ONE)
             y0 == MulDiv(ONE, ONE, E, ONE)[1]
         IN  SquareTimes(y0, 6)

(***************************************************************************)
(* Units.                                                                  *)
(***************************************************************************)
\* metres per position unit, and m^2 per squared position unit
PosUnit == 1250
UnitSq == PosUnit * PosUnit
\* seconds per unit of the transition-matrix entry (1 mm/s * 1000 s = 1 m)
TimeScale == 1000

(***************************************************************************)
(* CovarianceModel (src/src/ssa/ca/covariance.py).                         *)
(***************************************************************************)
\* process-noise sigmas of the shared _cov_model: 0.05 km and 0.0001 km/s
ProcSigmaPos == 50
ProcSigmaVel == 100

Ix == 1..6

Zero6 == [i \in Ix |-> [j \in Ix |-> 0]]

Diag6(p, v) ==
    [i \in Ix |-> [j \in Ix |-> IF i # j THEN 0 ELSE IF i <= 3 THEN p ELSE v]]

MatMul(A, B) ==
    [i \in Ix |-> [j \in Ix |->
        A[i][1] * B[1][j] + A[i][2] * B[2][j] + A[i][3] * B[3][j]
      + A[i][4] * B[4][j] + A[i][5] * B[5][j] + A[i][6] * B[6][j]]]

Transpose(A) == [i \in Ix |-> [j \in Ix |-> A[j][i]]]

MatAdd(A, B) == [i \in Ix |-> [j \in Ix |-> A[i][j] + B[i][j]]]

\* sigma_pos in m, sigma_vel in mm/s
init_covariance(sigma_pos, sigma_vel) ==
    Diag6(sigma_pos * sigma_pos, sigma_vel * sigma_vel)

\* the propagation without the transposed factor: F P + Q
propagate_one_sided(P, dt_s) ==
    LET F == [i \in Ix |-> [j \in Ix |->
                 IF i = j THEN 1
                 ELSE IF j = i + 3 THEN dt_s \div TimeScale
                 ELSE 0]]
        q_pos == (ProcSigmaPos * ProcSigmaPos) * Max(dt_s, 1)
        q_vel == (ProcSigmaVel * ProcSigmaVel) * Max(dt_s, 1)
        Q == Diag6(q_pos, q_vel)
    IN  MatAdd(MatMul(F, P), Q)

\* F = I with F[i, i+3] = dt_s; Q = diag(q_pos x3, q_vel x3); P2 = F P F^T + Q
propagate(P, dt_s) ==
    LET F == [i \in Ix |-> [j \in Ix |->
                 IF i = j THEN 1
                 ELSE IF j = i + 3 THEN dt_s \div TimeScale
                 ELSE 0]]
        q_pos == (ProcSigmaPos * ProcSigmaPos) * Max(dt_s, 1)
        q_vel == (ProcSigmaVel * ProcSigmaVel) * Max(dt_s, 1)
        Q == Diag6(q_pos, q_vel)
    IN  MatAdd(MatMul(MatMul(F, P), Transpose(F)), Q)

(***************************************************************************)
(* ConjunctionAssessmentEngine.collision_probability                       *)
(* (src/src/ssa/ca/conjunction.py).                                        *)
(***************************************************************************)
\* the floor max(sigma2, 1e-12) km^2 is 1/SigmaFloorDen m^2
SigmaFloorDen == 1000000

CeilDiv(a, b) == (a + b - 1) \div b

\* pc >= 1e-3, 1e-4, 1e-6 on fixed-point values
PcCritical == CeilDiv(ONE, 1000)
PcHigh == CeilDiv(ONE, 10000)
PcMedium == CeilDiv(ONE, 1000000)

\* the band chain with the first threshold a decade too high
RiskOfShifted(pc) ==
    IF pc >= PcCritical * 10 THEN "CRITICAL"
    ELSE IF pc >= PcHigh THEN "HIGH"
    ELSE IF pc >= PcMedium THEN "MEDIUM"
    ELSE "LOW"

\* risk = "LOW"; if pc >= 1e-3: "CRITICAL"; elif pc >= 1e-4: "HIGH"; elif
\* pc >= 1e-6: "MEDIUM"
RiskOf(pc) ==
    IF pc >= PcCritical THEN "CRITICAL"
    ELSE IF pc >= PcHigh THEN "HIGH"
    ELSE IF pc >= PcMedium THEN "MEDIUM"
    ELSE "LOW"

\* sigma^2 = max(trace(P)/3, 1e-12 km^2) as the fraction sn/sd (m^2); the
\* code's sigma = sqrt(sigma^2) is only ever used squared (sigma*sigma, and
\* (hbr/sigma)**2), so the model carries sigma^2.
Sigma2Num(trace) == IF trace >= 1 THEN trace ELSE 1
Sigma2Den(trace) == IF trace >= 1 THEN 3 ELSE SigmaFloorDen

\* 1 - exp(...) in place of exp(...)
PcBaseComplement(miss2, sn, sd) ==
    LET h1 == MulDiv(miss2, UnitSq, 2 * sn, XMax)
        h2 == MulDiv(h1[2], sd, 2 * sn, ONE)
        f  == MulDiv(h2[2], ONE, 2 * sn, ONE)
    IN  IF h1[1] >= XMax THEN ONE
        ELSE ONE - ExpNeg(sd * h1[1] + h2[1], f[1])

\* base = exp(-(d*d) / (2*sigma*sigma)), d*d = miss2 * UnitSq m^2
PcBase(miss2, sn, sd) ==
    LET h1 == MulDiv(miss2, UnitSq, 2 * sn, XMax)
        h2 == MulDiv(h1[2], sd, 2 * sn, ONE)
        f  == MulDiv(h2[2], ONE, 2 * sn, ONE)
    IN  IF h1[1] >= XMax THEN 0
        ELSE ExpNeg(sd * h1[1] + h2[1], f[1])

\* scale = min(1.0, (hbr_km / max(sigma, 1e-9))**2); sigma >= 1e-6 km always
PcScale(hbr, sn, sd) ==
    LET h1 == MulDiv(hbr * hbr, sd, sn, 1)
    IN  IF h1[1] >= 1 THEN ONE
        ELSE MulDiv(h1[2], ONE, sn, ONE)[1]

\* the estimator with both clamps (min(1.0, ...) of scale and of pc) left out
collision_probability_unclamped(miss2, cov1, cov2, hbr) ==
    LET P == [i \in 1..3 |-> [j \in 1..3 |-> cov1[i][j] + cov2[i][j]]]
        trace == P[1][1] + P[2][2] + P[3][3]
        sn == Sigma2Num(trace)
        sd == Sigma2Den(trace)
        base == PcBase(miss2, sn, sd)
        whole == MulDiv(hbr * hbr, sd, sn, 2)
        scale == whole[1] * ONE + MulDiv(whole[2], ONE, sn, ONE)[1]
        pc == FixMul(base, scale)
    IN  [pc |-> pc, risk |-> RiskOf(pc), sigma2_num |-> sn, sigma2_den |-> sd,
         hbr |-> hbr]

\* collision_probability(miss_distance_km, cov1, cov2) of an engine whose
\* hard_body_radius_m is hbr; miss2 is the squared miss distance in PosUnit^2
collision_probability(miss2, cov1, cov2, hbr) ==
    LET P == [i \in 1..3 |-> [j \in 1..3 |-> cov1[i][j] + cov2[i][j]]]
        trace == P[1][1] + P[2][2] + P[3][3]
        sn == Sigma2Num(trace)
        sd == Sigma2Den(trace)
        base == PcBase(miss2, sn, sd)
        scale == PcScale(hbr, sn, sd)
        pc == Min(ONE, FixMul(base, scale))
    IN  [pc |-> pc, risk |-> RiskOf(pc), sigma2_num |-> sn, sigma2_den |-> sd,
         hbr |-> hbr]

(***************************************************************************)
(* ConjunctionAssessmentEngine.closest_approach.                           *)
(***************************************************************************)
VecAdd(a, b) == <<a[1] + b[1], a[2] + b[2], a[3] + b[3]>>
VecSub(a, b) == <<a[1] - b[1], a[2] - b[2], a[3] - b[3]>>
VecScale(a, k) == <<a[1] * k, a[2] * k, a[3] * k>>
Dot(a, b) == a[1] * b[1] + a[2] * b[2] + a[3] * b[3]
\* np.linalg.norm(a) squared
Norm2(a) == Dot(a, a)

\* float("inf") as a squared miss distance
Inf == -1

\* the comparison turned round
FartherThan(m, bestm) == bestm = Inf \/ m > bestm

\* "if miss < best['miss_distance_km']"
LessThan(m, bestm) == bestm = Inf \/ m < bestm

\* the loop with "while t < window_s"
RECURSIVE CaLoopExclusive(_, _, _, _, _, _, _, _)
CaLoopExclusive(p10, v10, p20, v20, window_s, step_s, t, best) ==
    IF t >= window_s THEN best
    ELSE LET p1 == VecAdd(p10, VecScale(v10, t))
             p2 == VecAdd(p20, VecScale(v20, t))
             rel == VecSub(p2, p1)
             miss == Norm2(rel)
             nb == IF LessThan(miss, best.miss2)
                   THEN [t_offset_s |-> t, miss2 |-> miss,
                         rel_speed2 |-> Norm2(VecSub(v20, v10)),
                         p1 |-> p1, p2 |-> p2]
                   ELSE best
         IN  CaLoopExclusive(p10, v10, p20, v20, window_s, step_s, t + step_s, nb)

\* the body of "while t <= window_s", from instant t with the best so far
RECURSIVE CaLoop(_, _, _, _, _, _, _, _)
CaLoop(p10, v10, p20, v20, window_s, step_s, t, best) ==
    IF t > window_s THEN best
    ELSE LET p1 == VecAdd(p10, VecScale(v10, t))
             p2 == VecAdd(p20, VecScale(v20, t))
             rel == VecSub(p2, p1)
             miss == Norm2(rel)
             nb == IF LessThan(miss, best.miss2)
                   THEN [t_offset_s |-> t, miss2 |-> miss,
                         rel_speed2 |-> Norm2(VecSub(v20, v10)),
                         p1 |-> p1, p2 |-> p2]
                   ELSE best
         IN  CaLoop(p10, v10, p20, v20, window_s, step_s, t + step_s, nb)

closest_approach(state1, state2, window_s, step_s) ==
    LET p10 == state1.position
        v10 == state1.velocity
        p20 == state2.position
        v20 == state2.velocity
        best == [t_offset_s |-> 0, miss2 |-> Inf, rel_speed2 |-> 0,
                 p1 |-> p10, p2 |-> p20]
    IN  CaLoop(p10, v10, p20, v20, window_s, step_s, 0, best)

(***************************************************************************)
(* State of the service.                                                   *)
(***************************************************************************)
VARIABLES
    sources,          \* fusion_engine.sources, in dict insertion order
    fusion_history,   \* fusion_engine.fusion_history
    ca_hbr,           \* _ca_engine.hard_body_radius_m
    events,           \* CONJUNCTION_EVENTS
    now,              \* datetime.utcnow(), in hours
    resp,             \* the response of the last request
    nops,             \* number of requests served (and clock ticks) so far
    pcIn,             \* arguments of a collision_probability call
    pcOut,            \* what the call returned (None before it returns)
    pipeIn,           \* arguments of a conjunction_pipeline call
    pipeOut,          \* what the call returned (None before it returns)
    caIn,             \* a pair of states, a window and a step to search
    caOut,            \* what each closest-approach search returned for them
    covs,             \* two covariances under propagation, and their sum
    cdmIn,            \* an event held by the store, to be exported
    cdmOut,           \* the exports of it made so far, in order
    tleIn,            \* an element set handed to the analytic propagator
    tleOut,           \* what propagate_tle did with it (None before the call)
    scrIn,            \* a catalog handed to the screening, with what sgp4 makes of it
    scrOut,           \* what the screening functions returned for it
    zonIn,            \* a position handed to the zonal accelerations
    zonOut,           \* the accelerations returned for it
    catalog_cache,    \* catalog._catalog_cache
    cache_time,       \* catalog._cache_time
    catOut,           \* the outcome of the last get_active_catalog call
    iss_tle_cache,    \* propagator._iss_tle_cache
    cache_valid_until, \* propagator._cache_valid_until
    issOut,           \* the outcome of the last _fetch_fresh_iss_tle call
    threads,          \* the assess requests in progress, one per worker thread
    loop              \* a run of the closest_approach loop, step by step

\* the variables of the service, and those of the stand-alone function calls
apiVars == <<sources, fusion_history, ca_hbr, events, now, resp, nops>>
callVars == <<pcIn, pcOut, pipeIn, pipeOut, caIn, caOut, covs, cdmIn, cdmOut, tleIn, tleOut>>

\* the variables of the screening, the zonal accelerations, the two caches,
\* the worker threads and the stepwise search loop
scrVars == <<scrIn, scrOut>>
zonVars == <<zonIn, zonOut>>
catVars == <<catalog_cache, cache_time, catOut>>
issVars == <<iss_tle_cache, cache_valid_until, issOut>>
libVars == <<scrVars, zonVars, catVars, issVars, threads, loop>>

\* Python None / a missing value
None == <<>>

\* nothing handed in, nothing cached, no request in progress
ScrIdle == scrIn = None /\ scrOut = None
ZonIdle == zonIn = None /\ zonOut = None
\* datetime.min in minutes before the start of the clock
DatetimeMin == -1000000
CatIdle == catalog_cache = None /\ cache_time = DatetimeMin /\ catOut = None
IssIdle == iss_tle_cache = None /\ cache_valid_until = DatetimeMin /\ issOut = None
LibIdle == ScrIdle /\ ZonIdle /\ CatIdle /\ IssIdle /\ threads = None /\ loop = None

(***************************************************************************)
(* Bounds and sample inputs.                                               *)
(***************************************************************************)
\* the model serves at most MaxOps requests
MaxOps == 5

SourceNames == {"radar"}
ObjectIds == {"SAT-1", "SAT-2", "GHOST"}

\* 7000 km and 7.5 km/s in position units
R0 == 5600
V0 == 6

\* observed (position, velocity) payloads per object; None = field absent.
\* SAT-2 is seen head-on at SAT-1's place, alongside it, or head-on 1000 s
\* away from meeting it
ObsSamples ==
    { [object_id |-> "SAT-1", position |-> <<R0, 0, 0>>, velocity |-> <<0, V0, 0>>],
      [object_id |-> "SAT-2", position |-> <<R0, 0, 0>>, velocity |-> <<0, -V0, 0>>],
      [object_id |-> "SAT-2", position |-> <<R0 + 2, 0, 0>>, velocity |-> <<0, V0, 0>>],
      [object_id |-> "SAT-2", position |-> <<R0, 2000 * V0, 0>>, velocity |-> <<0, -V0, 0>>] }

\* 12 upper-case hex digits of uuid4, behind the "CDM-" prefix
EventIdSeq == <<"CDM-0A1B2C3D4E5F", "CDM-6F7E8D9C0B1A", "CDM-123456789ABC">>
EventIds == {EventIdSeq[i] : i \in 1..Len(EventIdSeq)}

(***************************************************************************)
(* DataFusionEngine (src/src/core/fusion.py).                              *)
(***************************************************************************)
SourceIndex(name) ==
    IF \E i \in 1..Len(sources) : sources[i].name = name
    THEN CHOOSE i \in 1..Len(sources) : sources[i].name = name
    ELSE 0

\* self.sources[name] = {...}: a new key goes last, an existing key keeps
\* its place and loses its observations
register_source(name, reliability) ==
    LET entry == [name |-> name, reliability |-> reliability, observations |-> <<>>]
        i == SourceIndex(name)
    IN  IF i = 0 THEN Append(sources, entry)
        ELSE [sources EXCEPT ![i] = entry]

RegisterSource ==
    \E name \in SourceNames, reliability \in {0, 1} :
        /\ nops < MaxOps
        /\ nops' = nops + 1
        /\ sources' = register_source(name, reliability)
        /\ resp' = [op |-> "register", status |-> 200, event_id |-> None,
                    body |-> None, calls |-> <<>>]
        /\ UNCHANGED <<fusion_history, ca_hbr, events, now>>
        /\ UNCHANGED callVars
        /\ UNCHANGED libVars

IngestObservation ==
    \E name \in SourceNames, data \in ObsSamples :
        /\ SourceIndex(name) # 0
        /\ nops < MaxOps
        /\ nops' = nops + 1
        /\ LET observation == [timestamp |-> now, object_id |-> data.object_id,
                               position |-> data.position, velocity |-> data.velocity,
                               confidence |-> 1, source |-> name]
               i == SourceIndex(name)
           IN  /\ sources' = [sources EXCEPT ![i].observations = Append(@, observation)]
               /\ resp' = [op |-> "ingest", status |-> 200, event_id |-> None,
                           body |-> observation, calls |-> <<>>]
        /\ UNCHANGED <<fusion_history, ca_hbr, events, now>>
        /\ UNCHANGED callVars
        /\ UNCHANGED libVars

\* raise ValueError(f"Unknown source: {source}")
IngestUnknownSource ==
    \E name \in SourceNames :
        /\ SourceIndex(name) = 0
        /\ nops < MaxOps
        /\ nops' = nops + 1
        /\ resp' = [op |-> "ingest", status |-> 500, event_id |-> None,
                    body |-> None, calls |-> <<>>]
        /\ UNCHANGED <<sources, fusion_history, ca_hbr, events, now>>
        /\ UNCHANGED callVars
        /\ UNCHANGED libVars

\* the observations of obj_id newer than the cutoff, source by source
RECURSIVE SelectObs(_, _, _, _)
SelectObs(srcs, i, obj_id, cutoff) ==
    IF i > Len(srcs) THEN <<>>
    ELSE SelectSeq(srcs[i].observations,
                   LAMBDA o : o.object_id = obj_id /\ o.timestamp > cutoff)
         \o SelectObs(srcs, i + 1, obj_id, cutoff)

Reliability(name) == sources[SourceIndex(name)].reliability

RECURSIVE WeightSum(_, _)
WeightSum(obs, i) ==
    IF i > Len(obs) THEN 0
    ELSE Reliability(obs[i].source) * obs[i].confidence + WeightSum(obs, i + 1)

\* sum of weight * vector over the observations that carry the field
RECURSIVE WeightedVec(_, _, _)
WeightedVec(obs, i, field) ==
    IF i > Len(obs) THEN <<0, 0, 0>>
    ELSE LET w == Reliability(obs[i].source) * obs[i].confidence
             rest == WeightedVec(obs, i + 1, field)
         IN  IF obs[i][field] # None
             THEN VecAdd(VecScale(obs[i][field], w), rest)
             ELSE rest

\* fused /= total_weight (float division; whole units in the model)
VecDiv(a, k) == <<a[1] \div k, a[2] \div k, a[3] \div k>>

fuse(obj_id, time_window_hours) ==
    LET cutoff == now - time_window_hours
        observations == SelectObs(sources, 1, obj_id, cutoff)
        total_weight == WeightSum(observations, 1)
    IN  IF observations = <<>> THEN [error |-> "No observations in time window"]
        ELSE IF total_weight = 0 THEN [error |-> "Zero total weight"]
        ELSE [object_id |-> obj_id,
              fused_time |-> now,
              position |-> VecDiv(WeightedVec(observations, 1, "position"), total_weight),
              velocity |-> VecDiv(WeightedVec(observations, 1, "velocity"), total_weight),
              confidence |-> <<total_weight, Max(1, Len(observations))>>,
              num_sources |-> Cardinality({observations[i].source : i \in 1..Len(observations)})]

Fuse ==
    \E obj_id \in ObjectIds, time_window_hours \in {1} :
        LET result == fuse(obj_id, time_window_hours)
        IN  /\ nops < MaxOps
            /\ nops' = nops + 1
            /\ fusion_history' = IF "error" \in DOMAIN result THEN fusion_history
                                 ELSE Append(fusion_history, result)
            /\ resp' = [op |-> "fuse", status |-> 200, event_id |-> None,
                        body |-> result, calls |-> <<>>]
            /\ UNCHANGED <<sources, ca_hbr, events, now>>
            /\ UNCHANGED callVars
            /\ UNCHANGED libVars

(***************************************************************************)
(* Conjunction assessment and CDM export (src/src/api/routes_ssa.py).      *)
(***************************************************************************)
\* Field(...) limits of ConjunctionAssessRequest, in model units
MinWindow == 10
MaxWindow == 7 * 24 * 3600
MinStep == 1
MaxStep == 3600
MinSigmaPos == 1
MaxSigmaPos == 10000
MinSigmaVel == 1
MaxSigmaVel == 1000000
MaxHbr == 100

\* the limits without the lower limits (ge) of the two sigmas
ValidRequestNoFloor(req) ==
    /\ req.window_s >= MinWindow /\ req.window_s <= MaxWindow
    /\ req.step_s >= MinStep /\ req.step_s <= MaxStep
    /\ req.sigma_pos <= MaxSigmaPos
    /\ req.sigma_vel <= MaxSigmaVel
    /\ 10 * req.hbr >= 1 /\ req.hbr <= MaxHbr

\* pydantic validation of the request body; a failure is answered with 422
\* before the handler is entered (hard_body_radius_m >= 0.1 m: ten times the
\* radius in metres is at least 1)
ValidRequest(req) ==
    /\ req.window_s >= MinWindow /\ req.window_s <= MaxWindow
    /\ req.step_s >= MinStep /\ req.step_s <= MaxStep
    /\ req.sigma_pos >= MinSigmaPos /\ req.sigma_pos <= MaxSigmaPos
    /\ req.sigma_vel >= MinSigmaVel /\ req.sigma_vel <= MaxSigmaVel
    /\ 10 * req.hbr >= 1 /\ req.hbr <= MaxHbr

BaseRequest ==
    [object1_id |-> "SAT-1", object2_id |-> "SAT-2", window_s |-> 1000,
     step_s |-> 1000, sigma_pos |-> 100, sigma_vel |-> 1000, hbr |-> 10]

\* (window_s, sigma_vel, hbr): the head-on scenario's sigmas (100 m, 1 mm/s)
\* with radius 10 m and 100 m, and the default sigma_vel over a longer window
RequestShapes == {<<1000, 1, 10>>, <<1000, 1, 100>>, <<2000, 1000, 1>>}

\* SAT-1 against SAT-2 in every shape, against an object nobody has seen, and
\* against itself
GoodRequests ==
    { [BaseRequest EXCEPT !.window_s = k[1], !.sigma_vel = k[2], !.hbr = k[3]] :
        k \in RequestShapes }
    \cup { [BaseRequest EXCEPT !.object2_id = o2] : o2 \in {"GHOST", "SAT-1"} }

BadRequests ==
    { [BaseRequest EXCEPT !.window_s = MaxWindow + 1000],
      [BaseRequest EXCEPT !.step_s = 0],
      [BaseRequest EXCEPT !.sigma_pos = -100, !.sigma_vel = -1000] }

Requests == GoodRequests \cup BadRequests

NotFound == [status |-> 404]

\* indices of the history entries / observations that qualify
HistoryHits(object_id) ==
    {i \in 1..Len(fusion_history) : fusion_history[i].object_id = object_id}

ObsHits(src, object_id) ==
    {i \in 1..Len(src.observations) :
        /\ src.observations[i].object_id = object_id
        /\ src.observations[i].position # None
        /\ src.observations[i].velocity # None}

SetMax(S) == CHOOSE m \in S : \A n \in S : n <= m
SetMin(S) == CHOOSE m \in S : \A n \in S : m <= n

\* newest fused entry of the object; else the newest complete observation of
\* the first source (in dict order) that has one; else 404
latest_fused_state(object_id) ==
    IF HistoryHits(object_id) # {}
    THEN LET item == fusion_history[SetMax(HistoryHits(object_id))]
         IN  [position |-> item.position, velocity |-> item.velocity]
    ELSE LET withObs == {i \in 1..Len(sources) : ObsHits(sources[i], object_id) # {}}
         IN  IF withObs = {} THEN NotFound
             ELSE LET src == sources[SetMin(withObs)]
                      latest_obs == src.observations[SetMax(ObsHits(src, object_id))]
                  IN  [position |-> latest_obs.position, velocity |-> latest_obs.velocity]

\* an id computed from what the event is built from
HashedEventIds(evs, inputs) ==
    {IF inputs.pc >= PcCritical THEN "CDM-0A1B2C3D4E5F"
     ELSE IF inputs.miss2 = 0 THEN "CDM-6F7E8D9C0B1A"
     ELSE "CDM-123456789ABC"}

\* "CDM-" + uuid.uuid4().hex[:12].upper(): a value no earlier call returned
\* (uuid4 values are taken to be unique, and being interchangeable they are
\* handed out in the order of EventIdSeq); inputs is what the event is built
\* from, which uuid4 does not look at
NewEventIds(evs, inputs) ==
    LET unused == {i \in 1..Len(EventIdSeq) : EventIdSeq[i] \notin DOMAIN evs}
    IN  IF unused = {} THEN {} ELSE {EventIdSeq[SetMin(unused)]}

\* a store that keeps the newest event only
StoreReplacing(evs, event_id, event) == [id \in {event_id} |-> event]

\* CONJUNCTION_EVENTS[event_id] = event
StoreEvent(evs, event_id, event) ==
    [id \in DOMAIN evs \cup {event_id} |-> IF id = event_id THEN event ELSE evs[id]]

OkResp(op, event_id, body, calls) ==
    [op |-> op, status |-> 200, event_id |-> event_id, body |-> body, calls |-> calls]

ErrResp(op, status, event_id, calls) ==
    [op |-> op, status |-> status, event_id |-> event_id, body |-> None, calls |-> calls]

\* the event built by the handler from the request and what it computed
BuildEvent(req, event_id, s1, s2, P1p, P2p, ca, pc) ==
    [event_id |-> event_id,
     created_at |-> now,
     tca_utc |-> now,
     miss2 |-> ca.miss2,
     rel_speed2 |-> ca.rel_speed2,
     pc |-> pc.pc,
     risk |-> pc.risk,
     covariance |-> [object1 |-> P1p, object2 |-> P2p],
     object1 |-> [object_id |-> req.object1_id, state |-> s1],
     object2 |-> [object_id |-> req.object2_id, state |-> s2]]

\* lines 241-260 of the handler: covariances over the window, the search,
\* and Pc with the radius the handler has just written to the shared engine
assess_compute(req, s1, s2, hbr) ==
    LET P1 == init_covariance(req.sigma_pos, req.sigma_vel)
        P2 == init_covariance(req.sigma_pos, req.sigma_vel)
        P1p == propagate(P1, req.window_s)
        P2p == propagate(P2, req.window_s)
        ca == closest_approach(s1, s2, req.window_s, req.step_s)
        pc == collision_probability(ca.miss2, P1p, P2p, hbr)
    IN  [P1p |-> P1p, P2p |-> P2p, ca |-> ca, pc |-> pc]

AssessCalls ==
    <<"set_hbr", "state1", "state2", "init_covariance", "propagate",
      "closest_approach", "collision_probability", "store">>

\* POST /conjunction/assess with a body that passed validation
Assess ==
    \E req \in Requests :
        /\ ValidRequest(req)
        /\ nops < MaxOps
        /\ nops' = nops + 1
        /\ ca_hbr' = req.hbr
        /\ LET s1 == latest_fused_state(req.object1_id)
               s2 == latest_fused_state(req.object2_id)
           IN  IF s1 = NotFound
               THEN /\ resp' = ErrResp("assess", 404, None, <<"set_hbr", "state1">>)
                    /\ UNCHANGED events
               ELSE IF s2 = NotFound
               THEN /\ resp' = ErrResp("assess", 404, None, <<"set_hbr", "state1", "state2">>)
                    /\ UNCHANGED events
               ELSE \E c \in {assess_compute(req, s1, s2, ca_hbr')} :
                    LET inputs == [object1_id |-> req.object1_id,
                                   object2_id |-> req.object2_id,
                                   tca_utc |-> now, miss2 |-> c.ca.miss2, pc |-> c.pc.pc]
                    IN  \E event_id \in NewEventIds(events, inputs) :
                            /\ events' = StoreEvent(events, event_id,
                                   BuildEvent(req, event_id, s1, s2, c.P1p, c.P2p, c.ca, c.pc))
                            /\ resp' = OkResp("assess", event_id,
                                   [request |-> req,
                                    t_offset_s |-> c.ca.t_offset_s,
                                    miss2 |-> c.ca.miss2,
                                    rel_speed2 |-> c.ca.rel_speed2,
                                    pc |-> c.pc.pc, risk |-> c.pc.risk,
                                    sigma2_num |-> c.pc.sigma2_num,
                                    sigma2_den |-> c.pc.sigma2_den],
                                   AssessCalls)
        /\ UNCHANGED <<sources, fusion_history, now>>
        /\ UNCHANGED callVars
        /\ UNCHANGED libVars

\* POST /conjunction/assess with a body that fails validation: HTTP 422, the
\* handler does not run
AssessRejected ==
    \E req \in Requests :
        /\ ~ValidRequest(req)
        /\ nops < MaxOps
        /\ nops' = nops + 1
        /\ resp' = [op |-> "assess", status |-> 422, event_id |-> None,
                    body |-> [request |-> req], calls |-> <<>>]
        /\ UNCHANGED <<sources, fusion_history, ca_hbr, events, now>>
        /\ UNCHANGED callVars
        /\ UNCHANGED libVars

\* Text is a sequence of tokens: the markup characters "<", ">", "&", "/"
\* one by one and runs of other characters as they come.
DigitChars == <<"0", "1", "2", "3", "4", "5", "6", "7", "8", "9">>

RECURSIVE Digits(_)
Digits(n) ==
    IF n < 10 THEN <<DigitChars[n + 1]>>
    ELSE Digits(n \div 10) \o <<DigitChars[(n % 10) + 1]>>

\* datetime.isoformat() of the clock reading
isoformat(t) == <<"T">> \o Digits(t)

\* event.get(key, default)
Get(d, key, default) == IF key \in DOMAIN d THEN d[key] ELSE default

\* the element tree built by export_cdm_xml, as the values handed to _el
export_cdm_xml(event) ==
    [CREATION_DATE |-> Get(event, "created_at", isoformat(now)),
     ORIGINATOR |-> "KOSHA_TRACK",
     EVENT_ID |-> event.event_id,
     TCA |-> Get(event, "tca_utc", <<"UNKNOWN">>),
     MISS_DISTANCE_KM |-> Get(event, "miss2", 0),
     REL_SPEED_KMS |-> Get(event, "rel_speed2", 0),
     COLLISION_PROBABILITY |-> Get(event, "pc", 0),
     RISK_LEVEL |-> Get(event, "risk", "LOW"),
     OBJECT1 |-> [OBJECT_ID |-> event.object1.object_id,
                  SOURCE |-> Get(event.object1, "source", <<"UNKNOWN">>),
                  stateVector |-> event.object1.state],
     OBJECT2 |-> [OBJECT_ID |-> event.object2.object_id,
                  SOURCE |-> Get(event.object2, "source", <<"UNKNOWN">>),
                  stateVector |-> event.object2.state]]

\* an export without the membership guard
ExportAnything(op, evs, event_id) ==
    IF DOMAIN evs = {} THEN OkResp(op, event_id, [EVENT_ID |-> event_id], <<"export_cdm_xml">>)
    ELSE OkResp(op, event_id,
                export_cdm_xml(evs[CHOOSE id \in DOMAIN evs : TRUE]), <<"export_cdm_xml">>)

\* "if event_id not in CONJUNCTION_EVENTS: raise HTTPException(404)", else
\* the serialized event
ExportOutcome(op, evs, event_id) ==
    IF event_id \notin DOMAIN evs
    THEN ErrResp(op, 404, event_id, <<>>)
    ELSE OkResp(op, event_id, export_cdm_xml(evs[event_id]), <<"export_cdm_xml">>)

\* GET /cdm/export/{event_id}
ExportCdm ==
    \E event_id \in EventIds :
        /\ resp' = ExportOutcome("export_cdm", events, event_id)
        /\ nops < MaxOps
        /\ nops' = nops + 1
        /\ UNCHANGED <<sources, fusion_history, ca_hbr, events, now>>
        /\ UNCHANGED callVars
        /\ UNCHANGED libVars

\* GET /cdm/export_xml/{event_id}
ExportCdmXmlFile ==
    \E event_id \in EventIds :
        /\ resp' = ExportOutcome("export_cdm_xml_file", events, event_id)
        /\ nops < MaxOps
        /\ nops' = nops + 1
        /\ UNCHANGED <<sources, fusion_history, ca_hbr, events, now>>
        /\ UNCHANGED callVars
        /\ UNCHANGED libVars

\* GET /cdm/export_xml2/{event_id}
ExportCdmXmlFileV2 ==
    \E event_id \in EventIds :
        /\ resp' = ExportOutcome("export_cdm_xml_file_v2", events, event_id)
        /\ nops < MaxOps
        /\ nops' = nops + 1
        /\ UNCHANGED <<sources, fusion_history, ca_hbr, events, now>>
        /\ UNCHANGED callVars
        /\ UNCHANGED libVars

\* time passes between requests
Tick ==
    /\ nops < MaxOps
    /\ nops' = nops + 1
    /\ now' = now + 1
    /\ UNCHANGED <<sources, fusion_history, ca_hbr, events, resp>>
    /\ UNCHANGED callVars
    /\ UNCHANGED libVars

\* the hard-body radius a fresh ConjunctionAssessmentEngine starts with
DefaultHbr == 10

Init ==
    /\ LibIdle
    /\ sources = <<>>
    /\ fusion_history = <<>>
    /\ ca_hbr = DefaultHbr
    /\ events = <<>>
    /\ now = 0
    /\ resp = [op |-> "none", status |-> 0, event_id |-> None, body |-> None,
               calls |-> <<>>]
    /\ nops = 0
    /\ pcIn = None /\ pcOut = None /\ pipeIn = None /\ pipeOut = None
    /\ caIn = None /\ caOut = None /\ covs = None
    /\ cdmIn = None /\ cdmOut = None
    /\ tleIn = None /\ tleOut = None

Next ==
    \/ RegisterSource
    \/ IngestObservation
    \/ IngestUnknownSource
    \/ Fuse
    \/ Assess
    \/ AssessRejected
    \/ ExportCdm
    \/ ExportCdmXmlFile
    \/ ExportCdmXmlFileV2
    \/ Tick

vars == <<sources, fusion_history, ca_hbr, events, now, resp, nops,
         pcIn, pcOut, pipeIn, pipeOut, caIn, caOut, covs, cdmIn, cdmOut, tleIn, tleOut,
         scrIn, scrOut, zonIn, zonOut, catalog_cache, cache_time, catOut,
         iss_tle_cache, cache_valid_until, issOut, threads, loop>>

Spec == Init /\ [][Next]_vars

(***************************************************************************)
(* Properties of the service (specification Spec).                         *)
(***************************************************************************)
ExportOps == {"export_cdm", "export_cdm_xml_file", "export_cdm_xml_file_v2"}

\* what an event id is said to be computed from
IdInputs(e) ==
    <<e.object1.object_id, e.object2.object_id, e.tca_utc, e.miss2, e.pc>>

HeadOnAssessed ==
    /\ resp.op = "assess" /\ resp.status = 200
    /\ resp.body.request.hbr = 10
    /\ resp.body.request.sigma_pos = 100 /\ resp.body.request.sigma_vel = 1
    /\ LET e == events[resp.event_id]
       IN  /\ e.object1.state.position = e.object2.state.position
           /\ e.object1.state.velocity = <<0, V0, 0>>
           /\ e.object2.state.velocity = <<0, -V0, 0>>

C5_RiskBands ==
    LET Band(pc) == IF pc > (ONE - 1) \div 1000 THEN "CRITICAL"
                    ELSE IF pc > (ONE - 1) \div 10000 THEN "HIGH"
                    ELSE IF pc > (ONE - 1) \div 1000000 THEN "MEDIUM"
                    ELSE "LOW"
        Edges == {(ONE - 1) \div 1000, (ONE - 1) \div 10000, (ONE - 1) \div 1000000}
    IN  /\ \A e \in Edges : \A pc \in {e, e + 1} : RiskOf(pc) = Band(pc)
        /\ RiskOf(0) = "LOW" /\ RiskOf(ONE) = "CRITICAL"
        /\ \A id \in DOMAIN events : events[id].risk = Band(events[id].pc)
        /\ (resp.op = "assess" /\ resp.status = 200)
           => /\ resp.body.risk = Band(resp.body.pc)
              /\ events[resp.event_id].risk = resp.body.risk
              /\ events[resp.event_id].pc = resp.body.pc

\* a CRITICAL event and an event of a lower band are stored
C5_Witness ==
    \E a \in DOMAIN events : \E b \in DOMAIN events :
        /\ events[a].risk = "CRITICAL" /\ events[a].pc < ONE
        /\ events[b].risk \in {"MEDIUM", "LOW"} /\ events[b].pc > 0

C7_UnknownIdNotFound ==
    [][ (now' = now /\ resp'.op \in ExportOps /\ resp'.event_id \notin DOMAIN events)
        => /\ resp'.status = 404
           /\ resp'.body = None
           /\ resp'.calls = <<>>
           /\ events' = events ]_vars

\* an unknown id was asked for while the store held an event
C7_Witness ==
    /\ resp.op \in ExportOps /\ resp.status = 404
    /\ resp.event_id \notin DOMAIN events
    /\ DOMAIN events # {}

\* the request breaks a limit the claim names
Rejectable(req) ==
    \/ req.window_s > 7 * 86400
    \/ req.step_s <= 0
    \/ req.sigma_pos < 0
    \/ req.sigma_vel < 0

\* C8: an assess request with a window above 7*86400 s, a step <= 0 or a
\* negative sigma is answered 422 without any state lookup, covariance
\* propagation or closest-approach search having run; no event is stored
\* and the engine's radius is not touched.
C8_RejectedBeforeWork ==
    [][ (/\ now' = now /\ resp'.op = "assess"
         /\ resp'.body # None /\ Rejectable(resp'.body.request))
        => /\ resp'.status = 422
           /\ resp'.calls = <<>>
           /\ events' = events
           /\ ca_hbr' = ca_hbr
           /\ fusion_history' = fusion_history /\ sources' = sources ]_vars

\* a request with negative sigmas was rejected although both objects had
\* states and events were already stored
C8_Witness ==
    /\ resp.op = "assess" /\ resp.status = 422
    /\ resp.body.request.sigma_pos < 0
    /\ latest_fused_state(resp.body.request.object1_id) # NotFound
    /\ DOMAIN events # {}

(***************************************************************************)
(* collision_probability on its own: one call with arguments drawn from    *)
(* samples (specification SpecPc).                                         *)
(***************************************************************************)
\* miss distances 0..MaxMissD position units, radii up to MaxHbrExp decades
MaxMissD == 6
MaxHbrExp == 3

RECURSIVE Pow10(_)
Pow10(k) == IF k = 0 THEN 1 ELSE 10 * Pow10(k - 1)

MissSamples == {d * d : d \in 0..MaxMissD}
HbrSamples == {0} \cup {Pow10(k) : k \in 0..MaxHbrExp}

\* no uncertainty at all, fresh covariances, and covariances after one and
\* two propagations
CovSamples ==
    { Zero6,
      init_covariance(100, 1),
      propagate(init_covariance(100, 1), 1000),
      propagate(init_covariance(100, 1000), 2000),
      propagate(propagate(init_covariance(100, 1), 1000), 1000) }

PcInputs ==
    [miss2 : MissSamples, cov1 : CovSamples, cov2 : CovSamples, hbr : HbrSamples]

InitPc ==
    /\ pcIn \in PcInputs
    /\ pcOut = None
    /\ pipeIn = None /\ pipeOut = None
    /\ caIn = None /\ caOut = None /\ covs = None
    /\ cdmIn = None /\ cdmOut = None
    /\ tleIn = None /\ tleOut = None
    /\ LibIdle
    /\ sources = <<>> /\ fusion_history = <<>> /\ ca_hbr = DefaultHbr
    /\ events = <<>> /\ now = 0 /\ nops = 0
    /\ resp = [op |-> "none", status |-> 0, event_id |-> None, body |-> None,
               calls |-> <<>>]

\* pc = engine.collision_probability(miss_km, cov1, cov2) with the engine's
\* hard_body_radius_m set to pcIn.hbr
PcCall ==
    /\ pcOut = None
    /\ pcOut' = collision_probability(pcIn.miss2, pcIn.cov1, pcIn.cov2, pcIn.hbr)
    /\ UNCHANGED <<pcIn, pipeIn, pipeOut, caIn, caOut, covs, cdmIn, cdmOut, tleIn, tleOut>>
    /\ UNCHANGED apiVars
    /\ UNCHANGED libVars

NextPc == PcCall

SpecPc == InitPc /\ [][NextPc]_vars

\* C3: for every miss distance >= 0, covariances with non-negative position
\* diagonal and radius >= 0, the Pc returned lies in [0, 1].
C3_PcInUnitInterval ==
    pcOut # None => (pcOut.pc >= 0 /\ pcOut.pc <= ONE)

\* a call with uncertain positions and a radius above sigma, where the
\* cross-section ratio exceeds 1 and Pc comes out as exactly 1
C3_Witness ==
    /\ pcOut # None
    /\ pcOut.pc = ONE
    /\ pcIn.cov1 # Zero6
    /\ pcIn.hbr * pcIn.hbr * pcOut.sigma2_den > pcOut.sigma2_num

\* C4: with the covariances and the radius fixed, a larger miss distance
\* never gives a larger Pc; with the miss distance and the covariances fixed,
\* a larger radius never gives a smaller Pc.
C4_PcMonotone ==
    pcOut # None
    => /\ \A m \in MissSamples :
              m >= pcIn.miss2
              => collision_probability(m, pcIn.cov1, pcIn.cov2, pcIn.hbr).pc <= pcOut.pc
       /\ \A h \in HbrSamples :
              h >= pcIn.hbr
              => collision_probability(pcIn.miss2, pcIn.cov1, pcIn.cov2, h).pc >= pcOut.pc

\* a call whose Pc is strictly above that of a larger miss distance and
\* strictly below that of a larger radius
C4_Witness ==
    /\ pcOut # None
    /\ \E m \in MissSamples :
           /\ m > pcIn.miss2
           /\ collision_probability(m, pcIn.cov1, pcIn.cov2, pcIn.hbr).pc < pcOut.pc
    /\ \E h \in HbrSamples :
           /\ h > pcIn.hbr
           /\ collision_probability(pcIn.miss2, pcIn.cov1, pcIn.cov2, h).pc > pcOut.pc

(***************************************************************************)
(* The screening pipeline (src/src/ssa_engine/conjunction): positions in   *)
(* units of PipeUnit metres, velocities in units per second, distances as  *)
(* squares, the analytic closest approach as exact fractions.              *)
(***************************************************************************)
PipeUnit == 10

\* (tca, miss) of straight-line relative motion: tca = tca_num / tca_den,
\* miss^2 = miss2_num / miss2_den; "v2 < 1e-8" is v2 = 0 for whole units
short_arc_tca(r1, v1, r2, v2) ==
    LET rel_r == VecSub(r1, r2)
        rel_v == VecSub(v1, v2)
        rv_dot == Dot(rel_r, rel_v)
        vv == Dot(rel_v, rel_v)
    IN  IF vv = 0
        THEN [tca_num |-> 0, tca_den |-> 1, miss2_num |-> Norm2(rel_r), miss2_den |-> 1]
        ELSE [tca_num |-> -rv_dot, tca_den |-> vv,
              miss2_num |-> Norm2(rel_r) * vv - rv_dot * rv_dot, miss2_den |-> vv]

\* the propagate_func handed to the pipeline: unperturbed straight-line
\* motion of state = <<r, v>> to time t
LinearPropagate(state, t) == VecAdd(state[1], VecScale(state[2], t))

\* distance_at_t(t), squared
distance_at_t(state1, state2, t) ==
    Norm2(VecSub(LinearPropagate(state1, t), LinearPropagate(state2, t)))

\* np.linspace(0, t_span, num_coarse) has num_coarse - 1 intervals
NumCoarse == 500
GridStep(t_span) == t_span \div (NumCoarse - 1)

\* np.argmin over the grid indices lo..hi: <<index, squared distance>> of the
\* first minimum
Earlier(a, b) == IF b[2] < a[2] THEN b ELSE a

RECURSIVE ArgMinGrid(_, _, _, _, _)
ArgMinGrid(state1, state2, step, lo, hi) ==
    IF lo = hi THEN <<lo, distance_at_t(state1, state2, lo * step)>>
    ELSE LET mid == (lo + hi) \div 2
         IN  Earlier(ArgMinGrid(state1, state2, step, lo, mid),
                     ArgMinGrid(state1, state2, step, mid + 1, hi))

\* the possible (res.x, res.fun) of the bounded scalar minimisation around
\* the coarse minimum: an instant of the bracket
\* [max(0, tc - t_span/10), min(t_span, tc + t_span/10)], at most a grid step
\* from tc and no farther apart than at tc, with the distance there
numerical_min_distance(state1, state2, t_span) ==
    LET step == GridStep(t_span)
    IN  { [x |-> t, fun2 |-> distance_at_t(state1, state2, t)] :
            t \in UNION { { u \in (best[1] * step - step)..(best[1] * step + step) :
                              /\ 10 * u >= Max(0, 10 * best[1] * step - t_span)
                              /\ 10 * u <= Min(10 * t_span, 10 * best[1] * step + t_span)
                              /\ distance_at_t(state1, state2, u) <= best[2] } :
                          best \in {ArgMinGrid(state1, state2, step, 0, NumCoarse - 1)} } }

\* "0 < tca < t_span and miss < screen_threshold_km * 1000" (a kilometre is
\* 1000 \div PipeUnit units)
PassesScreen(sa, t_span, screen_threshold_km) ==
    LET threshold == screen_threshold_km * (1000 \div PipeUnit)
    IN  /\ 0 < sa.tca_num
        /\ sa.tca_num < t_span * sa.tca_den
        /\ sa.miss2_num < threshold * threshold * sa.miss2_den

\* the comparison turned round
AboveRisk(precise_miss2, risk_threshold_m) ==
    precise_miss2 > (risk_threshold_m * risk_threshold_m) \div (PipeUnit * PipeUnit)

\* "precise_miss < risk_threshold_m": a whole number of squared units is
\* below (risk_threshold_m / PipeUnit)^2 when it is below that rounded up
BelowRisk(precise_miss2, risk_threshold_m) ==
    precise_miss2 < CeilDiv(risk_threshold_m * risk_threshold_m, PipeUnit * PipeUnit)

\* candidates.sort(key=lambda x: x['miss_distance_m']): list.sort is stable,
\* so an entry goes behind the entries that are not farther than it
RECURSIVE InsertByMiss(_, _)
InsertByMiss(sorted, c) ==
    IF sorted = <<>> THEN <<c>>
    ELSE IF Head(sorted).miss2 <= c.miss2
         THEN <<Head(sorted)>> \o InsertByMiss(Tail(sorted), c)
         ELSE <<c>> \o sorted

\* the same sort with reverse=True
RECURSIVE InsertByMissDescending(_, _)
InsertByMissDescending(sorted, c) ==
    IF sorted = <<>> THEN <<c>>
    ELSE IF Head(sorted).miss2 >= c.miss2
         THEN <<Head(sorted)>> \o InsertByMissDescending(Tail(sorted), c)
         ELSE <<c>> \o sorted

RECURSIVE SortDescending(_)
SortDescending(candidates) ==
    IF candidates = <<>> THEN <<>>
    ELSE InsertByMissDescending(SortDescending(SubSeq(candidates, 1, Len(candidates) - 1)),
                                candidates[Len(candidates)])

RECURSIVE SortByMiss(_)
SortByMiss(candidates) ==
    IF candidates = <<>> THEN <<>>
    ELSE InsertByMiss(SortByMiss(SubSeq(candidates, 1, Len(candidates) - 1)),
                      candidates[Len(candidates)])

\* the loop over catalog_states from entry i on: every way it can go, as the
\* candidates appended (in catalog order) and, for the record, every pair
\* that was refined with what the refinement returned
RECURSIVE PipelineLoop(_, _, _, _, _, _)
PipelineLoop(primary_state, catalog_states, t_span, screen_threshold_km, risk_threshold_m, i) ==
    IF i > Len(catalog_states) THEN {[candidates |-> <<>>, refined |-> <<>>]}
    ELSE LET idx == catalog_states[i][1]
             secondary_state == catalog_states[i][2]
             sa == short_arc_tca(primary_state[1], primary_state[2],
                                 secondary_state[1], secondary_state[2])
             rest == PipelineLoop(primary_state, catalog_states, t_span,
                                  screen_threshold_km, risk_threshold_m, i + 1)
         IN  IF ~PassesScreen(sa, t_span, screen_threshold_km) THEN rest
             ELSE { LET entry == [object_id |-> idx,
                                  tca_seconds |-> precise.x,
                                  miss2 |-> precise.fun2,
                                  relative_velocity2 |->
                                      Norm2(VecSub(primary_state[2], secondary_state[2]))]
                    IN  [candidates |->
                             (IF BelowRisk(precise.fun2, risk_threshold_m)
                              THEN <<entry>> ELSE <<>>) \o r.candidates,
                         refined |-> <<entry>> \o r.refined] :
                    precise \in numerical_min_distance(primary_state, secondary_state, t_span),
                    r \in rest }

\* every result conjunction_pipeline can return, with the record of the
\* refinements behind it
conjunction_pipeline(primary_state, catalog_states, t_span, screen_threshold_km, risk_threshold_m) ==
    { [candidates |-> SortByMiss(r.candidates), refined |-> r.refined] :
        r \in PipelineLoop(primary_state, catalog_states, t_span,
                           screen_threshold_km, risk_threshold_m, 1) }

(***************************************************************************)
(* One call of conjunction_pipeline (specification SpecPipe).              *)
(***************************************************************************)
\* catalogs of up to MaxCat objects
MaxCat == 2

CatalogIds == {101, 102, 103}

\* a protected asset moving along +y at 7 km/s
PrimaryState == <<<<0, 0, 0>>, <<0, 700, 0>>>>

\* (offset, relative velocity) of a secondary with respect to the primary:
\* passes at 500 m on either side and at 200 m, at exactly 1 km, at 3 km;
\* moving away; at rest 300 m off; alongside at 2 km with the same velocity
RelativeSamples ==
    { <<<<-201, 50, 0>>, <<1, 0, 0>>>>,
      <<<<-201, -50, 0>>, <<1, 0, 0>>>>,
      <<<<-150, 20, 0>>, <<1, 0, 0>>>>,
      <<<<-300, 100, 0>>, <<1, 0, 0>>>>,
      <<<<-100, 300, 0>>, <<1, 0, 0>>>>,
      <<<<100, 20, 0>>, <<1, 0, 0>>>>,
      <<<<30, 0, 0>>, <<0, 0, 0>>>>,
      <<<<200, 0, 0>>, <<0, 0, 0>>>> }

SecondaryStates ==
    { <<VecAdd(PrimaryState[1], s[1]), VecAdd(PrimaryState[2], s[2])>> :
        s \in RelativeSamples }

\* lists of (id, state) with distinct ids, in every order
Catalogs ==
    UNION { { c \in [1..n -> CatalogIds \X SecondaryStates] :
                \A i \in 1..n : \A j \in 1..n : i # j => c[i][1] # c[j][1] } :
            n \in 0..MaxCat }

TSpan == 2 * (NumCoarse - 1)
ScreenThresholdKm == 50
RiskThresholdM == 1000

InitPipe ==
    /\ pipeIn \in [primary_state : {PrimaryState}, catalog_states : Catalogs,
                   t_span : {TSpan}, screen_threshold_km : {ScreenThresholdKm},
                   risk_threshold_m : {RiskThresholdM}]
    /\ pipeOut = None
    /\ pcIn = None /\ pcOut = None
    /\ caIn = None /\ caOut = None /\ covs = None
    /\ cdmIn = None /\ cdmOut = None
    /\ tleIn = None /\ tleOut = None
    /\ LibIdle
    /\ sources = <<>> /\ fusion_history = <<>> /\ ca_hbr = DefaultHbr
    /\ events = <<>> /\ now = 0 /\ nops = 0
    /\ resp = [op |-> "none", status |-> 0, event_id |-> None, body |-> None,
               calls |-> <<>>]

PipelineCall ==
    /\ pipeOut = None
    /\ \E r \in conjunction_pipeline(pipeIn.primary_state, pipeIn.catalog_states,
                                     pipeIn.t_span, pipeIn.screen_threshold_km,
                                     pipeIn.risk_threshold_m) :
           pipeOut' = r
    /\ UNCHANGED <<pipeIn, pcIn, pcOut, caIn, caOut, covs, cdmIn, cdmOut, tleIn, tleOut>>
    /\ UNCHANGED apiVars
    /\ UNCHANGED libVars

NextPipe == PipelineCall

SpecPipe == InitPipe /\ [][NextPipe]_vars

\* place of an object in the catalog handed in (ids are distinct)
CatalogPos(id) ==
    CHOOSE i \in 1..Len(pipeIn.catalog_states) : pipeIn.catalog_states[i][1] = id

C10_ReportedIffBelowRisk ==
    pipeOut # None
    => LET reported == {pipeOut.candidates[i] : i \in 1..Len(pipeOut.candidates)}
           refined == {pipeOut.refined[i] : i \in 1..Len(pipeOut.refined)}
           risk2 == pipeIn.risk_threshold_m * pipeIn.risk_threshold_m
       IN  /\ \A c \in reported :
                  c \in refined /\ c.miss2 * (PipeUnit * PipeUnit) <= risk2
           /\ \A r \in refined :
                  r.miss2 * (PipeUnit * PipeUnit) < risk2 => r \in reported
           /\ Len(pipeOut.candidates) = Cardinality(reported)

\* a call that refined two pairs, reported the one at 500 m and dropped the
\* one at exactly the threshold
C10_Witness ==
    /\ pipeOut # None
    /\ Len(pipeOut.refined) = 2
    /\ Len(pipeOut.candidates) = 1
    /\ \E i \in 1..2 :
           pipeOut.refined[i].miss2 * (PipeUnit * PipeUnit)
             = pipeIn.risk_threshold_m * pipeIn.risk_threshold_m

\* the closest separation of straight-line relative motion over the horizon
\* [0, t_span], squared, is below the screening threshold: the separation now
\* when the objects keep their distance or draw apart, the separation at
\* t_span when they are still closing then, the analytic minimum otherwise
Stage1Below(state1, state2, t_span, screen_threshold_km) ==
    LET sa == short_arc_tca(state1[1], state1[2], state2[1], state2[2])
        threshold == screen_threshold_km * (1000 \div PipeUnit)
    IN  IF sa.tca_num <= 0
        THEN distance_at_t(state1, state2, 0) < threshold * threshold
        ELSE IF sa.tca_num >= t_span * sa.tca_den
             THEN distance_at_t(state1, state2, t_span) < threshold * threshold
             ELSE sa.miss2_num < threshold * threshold * sa.miss2_den

\* C11, as claimed: every catalog object whose stage-1 closest separation
\* from the primary is below the screening threshold is passed to the
\* refinement, the objects with no relative velocity and the objects closest
\* at the start of the horizon included.
C11_BelowScreenIsRefined ==
    pipeOut # None
    => \A i \in 1..Len(pipeIn.catalog_states) :
           Stage1Below(pipeIn.primary_state, pipeIn.catalog_states[i][2],
                       pipeIn.t_span, pipeIn.screen_threshold_km)
           => \E k \in 1..Len(pipeOut.refined) :
                  pipeOut.refined[k].object_id = pipeIn.catalog_states[i][1]

(***************************************************************************)
(* The stored event against the search behind it (specification Spec).     *)
(***************************************************************************)
\* the event an answered assess request has just stored, and its request
AssessedEvent == events[resp.event_id]
AssessedRequest == resp.body.request

\* C14, as claimed: the TCA recorded in the event an assess request stores
\* is the instant of the assessment plus the closest-approach offset the
\* search returned (the clock counts hours, the offset seconds), and the
\* states recorded are the two objects' states moved on to that instant.
C14_EventAtTca ==
    (resp.op = "assess" /\ resp.status = 200)
    => LET t == resp.body.t_offset_s
           s1 == latest_fused_state(AssessedRequest.object1_id)
           s2 == latest_fused_state(AssessedRequest.object2_id)
       IN  /\ 3600 * AssessedEvent.tca_utc = 3600 * AssessedEvent.created_at + t
           /\ AssessedEvent.object1.state
                = [position |-> VecAdd(s1.position, VecScale(s1.velocity, t)),
                   velocity |-> s1.velocity]
           /\ AssessedEvent.object2.state
                = [position |-> VecAdd(s2.position, VecScale(s2.velocity, t)),
                   velocity |-> s2.velocity]

\* C15, as claimed: the covariances an assess request stores, and computes
\* Pc from, are the initial covariance propagated over the closest-approach
\* offset the search returned, not over the requested window.
C15_CovarianceAtTca ==
    (resp.op = "assess" /\ resp.status = 200)
    => LET t == resp.body.t_offset_s
           Pt == propagate(init_covariance(AssessedRequest.sigma_pos,
                                           AssessedRequest.sigma_vel), t)
       IN  /\ AssessedEvent.covariance.object1 = Pt
           /\ AssessedEvent.covariance.object2 = Pt
           /\ resp.body.pc
                = collision_probability(resp.body.miss2, Pt, Pt, AssessedRequest.hbr).pc

(***************************************************************************)
(* The closest-approach searches side by side (specification SpecCa): the   *)
(* sampled search of the assessment engine, the analytic short-arc filter  *)
(* and the numerical refinement, each called once on the same pair of      *)
(* states in straight-line motion.                                         *)
(***************************************************************************)
\* coarse steps 1..MaxCoarseStep seconds; refinement spans of up to
\* MaxSpanSteps seconds per grid interval
MaxCoarseStep == 3
MaxSpanSteps == 2

WindowSamples == {10, 12}

CaPrimary == <<<<0, 0, 0>>, <<0, 7, 0>>>>

\* (offset, relative velocity) of the second object: closest at 5 s, at
\* 3.5 s, 3 s ago (drawing apart), at 11 s, at 20 s, at 300 s; keeping its
\* distance
CaRelativeSamples ==
    { <<<<-5, 2, 0>>, <<1, 0, 0>>>>,
      <<<<-7, 1, 0>>, <<2, 0, 0>>>>,
      <<<<3, 1, 0>>, <<1, 0, 0>>>>,
      <<<<-11, 0, 2>>, <<1, 0, 0>>>>,
      <<<<-20, 1, 0>>, <<1, 0, 0>>>>,
      <<<<-300, 5, 0>>, <<1, 0, 0>>>>,
      <<<<3, 0, 0>>, <<0, 0, 0>>>> }

CaInputs ==
    [state1 : {CaPrimary},
     state2 : { <<VecAdd(CaPrimary[1], s[1]), VecAdd(CaPrimary[2], s[2])>> :
                  s \in CaRelativeSamples },
     window_s : WindowSamples,
     step_s : 1..MaxCoarseStep,
     t_span : { (NumCoarse - 1) * k : k \in 1..MaxSpanSteps }]

\* the state dict of the assessment engine for <<r, v>>
StateDict(state) == [position |-> state[1], velocity |-> state[2]]

InitCa ==
    /\ caIn \in CaInputs
    /\ caOut = [ca |-> None, arc |-> None, num |-> None]
    /\ covs = None
    /\ cdmIn = None /\ cdmOut = None
    /\ tleIn = None /\ tleOut = None
    /\ pcIn = None /\ pcOut = None /\ pipeIn = None /\ pipeOut = None
    /\ LibIdle
    /\ sources = <<>> /\ fusion_history = <<>> /\ ca_hbr = DefaultHbr
    /\ events = <<>> /\ now = 0 /\ nops = 0
    /\ resp = [op |-> "none", status |-> 0, event_id |-> None, body |-> None,
               calls |-> <<>>]

\* engine.closest_approach(state1, state2, window_s, step_s)
ClosestApproachCall ==
    /\ caOut.ca = None
    /\ caOut' = [caOut EXCEPT !.ca = closest_approach(StateDict(caIn.state1),
                                                      StateDict(caIn.state2),
                                                      caIn.window_s, caIn.step_s)]
    /\ UNCHANGED <<caIn, pcIn, pcOut, pipeIn, pipeOut, covs, cdmIn, cdmOut, tleIn, tleOut>>
    /\ UNCHANGED apiVars
    /\ UNCHANGED libVars

\* short_arc_tca(r1, v1, r2, v2)
ShortArcCall ==
    /\ caOut.arc = None
    /\ caOut' = [caOut EXCEPT !.arc = short_arc_tca(caIn.state1[1], caIn.state1[2],
                                                    caIn.state2[1], caIn.state2[2])]
    /\ UNCHANGED <<caIn, pcIn, pcOut, pipeIn, pipeOut, covs, cdmIn, cdmOut, tleIn, tleOut>>
    /\ UNCHANGED apiVars
    /\ UNCHANGED libVars

\* numerical_min_distance(propagate_func, state1, state2, t_span)
NumericalMinCall ==
    /\ caOut.num = None
    /\ \E res \in numerical_min_distance(caIn.state1, caIn.state2, caIn.t_span) :
           caOut' = [caOut EXCEPT !.num = res]
    /\ UNCHANGED <<caIn, pcIn, pcOut, pipeIn, pipeOut, covs, cdmIn, cdmOut, tleIn, tleOut>>
    /\ UNCHANGED apiVars
    /\ UNCHANGED libVars

NextCa ==
    \/ ClosestApproachCall
    \/ ShortArcCall
    \/ NumericalMinCall

SpecCa == InitCa /\ [][NextCa]_vars

\* C12, as claimed: the TCA of the analytic filter and the TCA of the sampled
\* minimum over [0, window_s] of the same pair differ by at most one coarse
\* step.
C12_ShortArcWithinCoarseStep ==
    (caOut # None /\ caOut.arc # None /\ caOut.ca # None)
    => LET d == caOut.arc.tca_num - caOut.ca.t_offset_s * caOut.arc.tca_den
       IN  /\ d <= caIn.step_s * caOut.arc.tca_den
           /\ -d <= caIn.step_s * caOut.arc.tca_den

\* the instants "t = 0.0; while t <= window_s: ...; t += step_s" visits
SampledInstants == { k * caIn.step_s : k \in 0..(caIn.window_s \div caIn.step_s) }

\* C13: closest_approach returns a non-negative miss distance at an offset
\* that is one of the sampled instants of [0, window_s], the miss distance
\* is the separation there and no sampled instant has a smaller one; and
\* numerical_min_distance returns an instant of [0, t_span] with a
\* non-negative distance.
C13_TcaInsideWindow ==
    caOut # None
    => /\ caOut.ca # None
          => /\ caOut.ca.miss2 >= 0
             /\ caOut.ca.t_offset_s >= 0
             /\ caOut.ca.t_offset_s <= caIn.window_s
             /\ caOut.ca.t_offset_s \in SampledInstants
             /\ caOut.ca.miss2
                  = distance_at_t(caIn.state1, caIn.state2, caOut.ca.t_offset_s)
             /\ \A t \in SampledInstants :
                    caOut.ca.miss2 <= distance_at_t(caIn.state1, caIn.state2, t)
       /\ caOut.num # None
          => /\ caOut.num.x >= 0
             /\ caOut.num.x <= caIn.t_span
             /\ caOut.num.fun2 >= 0

\* a pair still closing at the end of the window: the sampled search stops
\* at the last instant, the window's end, and the refinement over the longer
\* span finds the passage past it
C13_Witness ==
    /\ caOut # None
    /\ caOut.ca # None
    /\ caOut.num # None
    /\ caOut.ca.t_offset_s = caIn.window_s
    /\ caOut.num.x > caIn.window_s
    /\ caOut.num.x < caIn.t_span

(***************************************************************************)
(* Covariances under propagation (specification SpecCov): two covariances  *)
(* initialised from sigmas, propagated step by step, and combined.         *)
(***************************************************************************)
\* at most MaxPropagations propagate calls in a run
MaxPropagations == 2

\* (sigma_pos in m, sigma_vel in mm/s), zero included
SigmaSamples == {<<0, 0>>, <<100, 0>>, <<0, 1>>, <<100, 1>>}

\* propagation intervals in seconds, zero included
DtSamples == {0, 1000, 2000}

\* "P = Ppos1 + Ppos2": the sum of the two covariances, whose position
\* block is the P of collision_probability
combine(cov1, cov2) == MatAdd(cov1, cov2)

InitCov ==
    /\ \E sg \in SigmaSamples :
           covs = [P1 |-> init_covariance(sg[1], sg[2]),
                   P2 |-> init_covariance(sg[1], sg[2]),
                   n |-> 0, rel |-> None]
    /\ caIn = None /\ caOut = None
    /\ cdmIn = None /\ cdmOut = None
    /\ tleIn = None /\ tleOut = None
    /\ pcIn = None /\ pcOut = None /\ pipeIn = None /\ pipeOut = None
    /\ LibIdle
    /\ sources = <<>> /\ fusion_history = <<>> /\ ca_hbr = DefaultHbr
    /\ events = <<>> /\ now = 0 /\ nops = 0
    /\ resp = [op |-> "none", status |-> 0, event_id |-> None, body |-> None,
               calls |-> <<>>]

\* P = _cov_model.propagate(P, dt_s) on either covariance
PropagateCall ==
    /\ covs.n < MaxPropagations
    /\ \E dt_s \in DtSamples :
           \/ covs' = [covs EXCEPT !.P1 = propagate(@, dt_s), !.n = @ + 1, !.rel = None]
           \/ covs' = [covs EXCEPT !.P2 = propagate(@, dt_s), !.n = @ + 1, !.rel = None]
    /\ UNCHANGED <<caIn, caOut, pcIn, pcOut, pipeIn, pipeOut, cdmIn, cdmOut, tleIn, tleOut>>
    /\ UNCHANGED apiVars
    /\ UNCHANGED libVars

\* the combination of the two covariances as they are
CombineCall ==
    /\ covs.rel = None
    /\ covs' = [covs EXCEPT !.rel = combine(covs.P1, covs.P2)]
    /\ UNCHANGED <<caIn, caOut, pcIn, pcOut, pipeIn, pipeOut, cdmIn, cdmOut, tleIn, tleOut>>
    /\ UNCHANGED apiVars
    /\ UNCHANGED libVars

NextCov ==
    \/ PropagateCall
    \/ CombineCall

SpecCov == InitCov /\ [][NextCov]_vars

Symmetric(P) == \A i \in Ix : \A j \in Ix : P[i][j] = P[j][i]

NonNegativeDiagonal(P) == \A i \in Ix : P[i][i] >= 0

RECURSIVE Gcd(_, _)
Gcd(a, b) == IF b = 0 THEN a ELSE Gcd(b, a % b)

Abs(a) == IF a < 0 THEN -a ELSE a

\* the position block divided by the greatest common divisor of its entries
\* (a positive factor, which does not change definiteness)
ReducedPositionBlock(P) ==
    LET g == Gcd(Gcd(Gcd(Abs(P[1][1]), Abs(P[1][2])), Gcd(Abs(P[1][3]), Abs(P[2][2]))),
                 Gcd(Abs(P[2][3]), Abs(P[3][3])))
    IN  [i \in 1..3 |-> [j \in 1..3 |-> IF g = 0 THEN 0 ELSE P[i][j] \div g]]

\* a symmetric 3x3 matrix is positive-semidefinite when all its principal
\* minors are non-negative
PositionBlockPSD(P) ==
    LET M == ReducedPositionBlock(P)
        Minor2(i, j) == M[i][i] * M[j][j] - M[i][j] * M[j][i]
    IN  /\ \A i \in 1..3 : M[i][i] >= 0
        /\ Minor2(1, 2) >= 0 /\ Minor2(1, 3) >= 0 /\ Minor2(2, 3) >= 0
        /\ M[1][1] * (M[2][2] * M[3][3] - M[2][3] * M[3][2])
             - M[1][2] * (M[2][1] * M[3][3] - M[2][3] * M[3][1])
             + M[1][3] * (M[2][1] * M[3][2] - M[2][2] * M[3][1]) >= 0

ValidCovariance(P) == Symmetric(P) /\ NonNegativeDiagonal(P) /\ PositionBlockPSD(P)

\* C16: a covariance initialised from non-negative sigmas and propagated any
\* number of times over intervals dt >= 0, and the combination of two such
\* covariances, is symmetric, has a non-negative diagonal and a
\* positive-semidefinite position block.
C16_CovarianceValid ==
    covs # None
    => /\ ValidCovariance(covs.P1)
       /\ ValidCovariance(covs.P2)
       /\ covs.rel # None => ValidCovariance(covs.rel)

\* two propagations behind, position and velocity now correlated, and the
\* two covariances combined
C16_Witness ==
    /\ covs # None
    /\ covs.n = 2
    /\ covs.P1[1][4] > 0
    /\ covs.P1 # covs.P2
    /\ covs.rel # None
    /\ covs.rel[1][1] > covs.P1[1][1]

(***************************************************************************)
(* The CDM document as text (specification SpecCdm): an event of the store *)
(* is exported by the three export handlers, at various times.             *)
(***************************************************************************)
\* str(text) of a number, without the sign
StrNumUnsigned(n) == IF n < 0 THEN Digits(-n) ELSE Digits(n)

\* str(text) of a number
StrNum(n) == IF n < 0 THEN <<"-">> \o Digits(-n) ELSE Digits(n)

\* text written as it is
NoEscape(text) == text

\* ElementTree's escaping of element text: "&", "<" and ">" become entities
Escape(text) ==
    [i \in 1..Len(text) |->
        IF text[i] = "&" THEN "&amp;"
        ELSE IF text[i] = "<" THEN "&lt;"
        ELSE IF text[i] = ">" THEN "&gt;"
        ELSE text[i]]

\* _el(parent, tag, text) in the serialized document; an element with empty
\* text is written in the short form
El(tag, text) ==
    IF text = <<>> THEN <<"<", tag, " /", ">">>
    ELSE <<"<", tag, ">">> \o Escape(text) \o <<"<", "/", tag, ">">>

\* the stateVector element
StateVectorXml(state) ==
    <<"<", "stateVector", ">">>
    \o El("X_KM", StrNum(state.position[1]))
    \o El("Y_KM", StrNum(state.position[2]))
    \o El("Z_KM", StrNum(state.position[3]))
    \o El("VX_KMS", StrNum(state.velocity[1]))
    \o El("VY_KMS", StrNum(state.velocity[2]))
    \o El("VZ_KMS", StrNum(state.velocity[3]))
    \o <<"<", "/", "stateVector", ">">>

\* an object element
ObjectXml(id, obj) ==
    <<"<", "object", id, ">">>
    \o El("OBJECT_ID", obj.OBJECT_ID)
    \o El("SOURCE", obj.SOURCE)
    \o StateVectorXml(obj.stateVector)
    \o <<"<", "/", "object", ">">>

\* ET.tostring(root, encoding="utf-8").decode("utf-8")
tostring(root) ==
    <<"<", "CDM", " xmlns=\"urn:ccsds:schema:ndm-xml\"", ">">>
    \o <<"<", "header", ">">>
    \o El("CREATION_DATE", root.CREATION_DATE)
    \o El("ORIGINATOR", <<root.ORIGINATOR>>)
    \o <<"<", "/", "header", ">">>
    \o <<"<", "body", ">">>
    \o <<"<", "metadata", ">">>
    \o El("EVENT_ID", root.EVENT_ID)
    \o El("TCA", root.TCA)
    \o El("MISS_DISTANCE_KM", StrNum(root.MISS_DISTANCE_KM))
    \o El("REL_SPEED_KMS", StrNum(root.REL_SPEED_KMS))
    \o El("COLLISION_PROBABILITY", StrNum(root.COLLISION_PROBABILITY))
    \o El("RISK_LEVEL", <<root.RISK_LEVEL>>)
    \o <<"<", "/", "metadata", ">">>
    \o ObjectXml(" id=\"OBJECT1\"", root.OBJECT1)
    \o ObjectXml(" id=\"OBJECT2\"", root.OBJECT2)
    \o <<"<", "/", "body", ">">>
    \o <<"<", "/", "CDM", ">">>

\* the places where "<CDM" and "</CDM>" start in a text
CdmStarts(xml) == {i \in 1..(Len(xml) - 1) : xml[i] = "<" /\ xml[i + 1] = "CDM"}
CdmEnds(xml) ==
    {i \in 1..(Len(xml) - 3) :
        xml[i] = "<" /\ xml[i + 1] = "/" /\ xml[i + 2] = "CDM" /\ xml[i + 3] = ">"}

\* the guard of export_cdm: with more than one "<CDM",
\* xml.split("<CDM", 2)[0] + xml.split("<CDM", 2)[1]
keep_first_only(xml) ==
    IF Cardinality(CdmStarts(xml)) > 1
    THEN LET first == SetMin(CdmStarts(xml))
             second == SetMin(CdmStarts(xml) \ {first})
         IN  SubSeq(xml, 1, first - 1) \o SubSeq(xml, first + 2, second - 1)
    ELSE xml

\* the guard of export_cdm_xml_file_v2: with more than one "<CDM",
\* xml.split("</CDM>", 1)[0] + "</CDM>"
first_cdm_block(xml) ==
    IF Cardinality(CdmStarts(xml)) > 1
    THEN (IF CdmEnds(xml) = {} THEN xml
          ELSE SubSeq(xml, 1, SetMin(CdmEnds(xml)) - 1)) \o <<"<", "/", "CDM", ">">>
    ELSE xml

\* at most MaxExports exports of the event, over MaxClock hours
MaxExports == 2
MaxClock == 2

\* texts an id or a source can be: plain, an event id, markup that opens and
\* closes a CDM element, and an entity look-alike
PlainText == <<"SAT-1">>
EventIdText == <<"CDM", "-0A1B2C3D4E5F">>
MarkupText == <<"<", "CDM", ">", "x", "<", "/", "CDM", ">", "<", "CDM", ">">>
EntityText == <<"a", "&", "lt;", "b">>

\* f without the keys given
Without(f, keys) == [k \in DOMAIN f \ keys |-> f[k]]

\* events as conjunction_assess stores them, events with other texts in the
\* same fields, with a source for the first object, and events that lack the
\* creation time or the TCA
CdmEvents ==
    { Without([event_id |-> eid,
               created_at |-> isoformat(0),
               tca_utc |-> isoformat(0),
               miss2 |-> 1234,
               rel_speed2 |-> 14678,
               pc |-> 456,
               risk |-> "MEDIUM",
               object1 |-> (IF src = None
                            THEN [object_id |-> oid,
                                  state |-> [position |-> <<R0, 0, 0>>,
                                             velocity |-> <<0, V0, 0>>]]
                            ELSE [object_id |-> oid, source |-> src,
                                  state |-> [position |-> <<R0, 0, 0>>,
                                             velocity |-> <<0, V0, 0>>]]),
               object2 |-> [object_id |-> EntityText,
                            state |-> [position |-> <<R0, 0, 0>>,
                                       velocity |-> <<0, -V0, 0>>]]],
              missing) :
        eid \in {EventIdText, MarkupText},
        oid \in {PlainText, MarkupText},
        src \in {None, MarkupText},
        missing \in SUBSET {"created_at", "tca_utc"} }

InitCdm ==
    /\ cdmIn \in CdmEvents
    /\ cdmOut = <<>>
    /\ tleIn = None /\ tleOut = None
    /\ caIn = None /\ caOut = None /\ covs = None
    /\ pcIn = None /\ pcOut = None /\ pipeIn = None /\ pipeOut = None
    /\ LibIdle
    /\ sources = <<>> /\ fusion_history = <<>> /\ ca_hbr = DefaultHbr
    /\ events = <<>> /\ now = 0 /\ nops = 0
    /\ resp = [op |-> "none", status |-> 0, event_id |-> None, body |-> None,
               calls |-> <<>>]

\* an export handler has answered: what export_cdm_xml returned and the
\* document the handler made of it
Exported(op, xml, doc) ==
    /\ Len(cdmOut) < MaxExports
    /\ cdmOut' = Append(cdmOut, [op |-> op, xml |-> xml, doc |-> doc])
    /\ UNCHANGED <<cdmIn, caIn, caOut, covs, pcIn, pcOut, pipeIn, pipeOut, tleIn, tleOut>>
    /\ UNCHANGED apiVars
    /\ UNCHANGED libVars

\* GET /cdm/export/{event_id} for the event: the "cdm_xml" of the answer
CdmExport ==
    \E xml \in {tostring(export_cdm_xml(cdmIn))} :
        Exported("export_cdm", xml, keep_first_only(xml))

\* GET /cdm/export_xml/{event_id} for the event
CdmExportXmlFile ==
    \E xml \in {tostring(export_cdm_xml(cdmIn))} :
        Exported("export_cdm_xml_file", xml, xml)

\* GET /cdm/export_xml2/{event_id} for the event
CdmExportXmlFileV2 ==
    \E xml \in {tostring(export_cdm_xml(cdmIn))} :
        Exported("export_cdm_xml_file_v2", xml, first_cdm_block(xml))

\* time passes between exports
CdmTick ==
    /\ now < MaxClock
    /\ now' = now + 1
    /\ UNCHANGED <<sources, fusion_history, ca_hbr, events, resp, nops>>
    /\ UNCHANGED callVars
    /\ UNCHANGED libVars

NextCdm ==
    \/ CdmExport
    \/ CdmExportXmlFile
    \/ CdmExportXmlFileV2
    \/ CdmTick

SpecCdm == InitCdm /\ [][NextCdm]_vars

\* C17: every document an export handler returns for the event has exactly
\* one CDM element: it opens with the one "<CDM" of the text and closes
\* with the one "</CDM>", whatever the texts of the event's fields.
C17_OneCdmElement ==
    cdmOut # None
    => \A k \in 1..Len(cdmOut) :
           LET doc == cdmOut[k].doc
           IN  /\ CdmStarts(doc) = {1}
               /\ CdmEnds(doc) = {Len(doc) - 3}

\* the two guarded handlers have exported an event whose event id, object
\* id and source each carry the markup of a CDM element
C17_Witness ==
    /\ cdmOut # None
    /\ Len(cdmOut) = 2
    /\ cdmOut[1].op = "export_cdm" /\ cdmOut[2].op = "export_cdm_xml_file_v2"
    /\ cdmIn.event_id = MarkupText
    /\ cdmIn.object1.object_id = MarkupText
    /\ "source" \in DOMAIN cdmIn.object1

\* An XML parser's reading of a document: the text of the k-th element with
\* the tag, entities resolved (None when there is no such element).
Unescape(text) ==
    [i \in 1..Len(text) |->
        IF text[i] = "&amp;" THEN "&"
        ELSE IF text[i] = "&lt;" THEN "<"
        ELSE IF text[i] = "&gt;" THEN ">"
        ELSE text[i]]

ElementText(xml, tag, k) ==
    LET opens == {i \in 1..(Len(xml) - 2) :
                     xml[i] = "<" /\ xml[i + 1] = tag /\ xml[i + 2] = ">"}
        at == {i \in opens : Cardinality({j \in opens : j < i}) = k - 1}
    IN  IF at = {} THEN None
        ELSE LET i == SetMin(at)
                 closes == {j \in (i + 3)..(Len(xml) - 2) :
                               xml[j] = "<" /\ xml[j + 1] = "/" /\ xml[j + 2] = tag}
             IN  IF closes = {} THEN None
                 ELSE Unescape(SubSeq(xml, i + 3, SetMin(closes) - 1))

DigitValue(c) == CHOOSE d \in 0..9 : DigitChars[d + 1] = c

RECURSIVE ParseDigits(_)
ParseDigits(text) ==
    IF Len(text) = 1 THEN DigitValue(text[1])
    ELSE 10 * ParseDigits(SubSeq(text, 1, Len(text) - 1)) + DigitValue(text[Len(text)])

\* float(text)
ParseNum(text) ==
    IF text[1] = "-" THEN -ParseDigits(Tail(text)) ELSE ParseDigits(text)

\* the state vector of the k-th object in a document
ParsedState(xml, k) ==
    [position |-> <<ParseNum(ElementText(xml, "X_KM", k)),
                    ParseNum(ElementText(xml, "Y_KM", k)),
                    ParseNum(ElementText(xml, "Z_KM", k))>>,
     velocity |-> <<ParseNum(ElementText(xml, "VX_KMS", k)),
                    ParseNum(ElementText(xml, "VY_KMS", k)),
                    ParseNum(ElementText(xml, "VZ_KMS", k))>>]

C19_SameEventSameXml ==
    cdmOut # None
    => \A j \in 1..Len(cdmOut) : \A k \in 1..Len(cdmOut) :
           cdmOut[j].xml = cdmOut[k].xml

(***************************************************************************)
(* The analytic propagator (src/src/ssa/propagator.py, specification       *)
(* SpecTle): one call of propagate_tle on an element set.  Eccentricity in *)
(* units of 1/EccScale, mean motion in revolutions per day, inclination in *)
(* degrees, as the element set states them.                                *)
(***************************************************************************)
EccScale == 10000000

\* inclinations of -45 degrees and of 0, 45, ... up to 45 * MaxInclSteps
MaxInclSteps == 5

\* error codes sat.sgp4 can report (0 = none), and speeds in km/s of the
\* state it returns
Sgp4ErrorCodes == 0..6
SpeedSamples == {7, 9, 11}

ElementSets ==
    [ecc : {-1, 0, 1234, 4000000, 8000000, EccScale - 1, EccScale, 2 * EccScale},
     mean_motion : {-1, 0, 15},
     inclination : {-45} \cup {45 * k : k \in 0..MaxInclSteps}]

\* Satrec.twoline2rv: the fields of the record validate_orbital_elements
\* reads. ecco as stated; no_kozai in thousandths of a radian per minute
\* (2 pi / 1440 per revolution per day); inclo in thousandths of a radian
\* (pi / 180 per degree)
twoline2rv(elements) ==
    [ecco |-> elements.ecc,
     no_kozai |-> (elements.mean_motion * 62832) \div 14400,
     inclo |-> (elements.inclination * 31416) \div 1800]

\* "not (0 <= sat.inclo <= 180)": the bound 180 against sat.inclo as it is
InclinationInvalid(sat) ==
    ~(0 <= sat.inclo /\ sat.inclo <= 180 * 1000)

\* validate_orbital_elements: the error raised, or the flags returned
validate_orbital_elements(sat) ==
    IF ~(0 <= sat.ecco /\ sat.ecco < EccScale)
    THEN [ok |-> FALSE, raised |-> "ValueError", message |-> "Invalid eccentricity"]
    ELSE IF sat.no_kozai <= 0
    THEN [ok |-> FALSE, raised |-> "ValueError", message |-> "Invalid mean motion"]
    ELSE IF InclinationInvalid(sat)
    THEN [ok |-> FALSE, raised |-> "ValueError", message |-> "Invalid inclination"]
    ELSE [ok |-> TRUE,
          flags |-> (IF 10 * sat.ecco > 3 * EccScale THEN <<"Highly eccentric orbit">>
                     ELSE <<>>)
                    \o (IF 10 * sat.ecco > 7 * EccScale THEN <<"CRITICAL: Ballistic">>
                        ELSE <<>>)]

\* propagate_tle, given what sat.sgp4 reports: the error raised or the
\* record returned
propagate_tle(elements, error_code, speed_kms) ==
    LET sat == twoline2rv(elements)
        base == validate_orbital_elements(sat)
    IN  IF ~base.ok THEN base
        ELSE IF error_code # 0
        THEN [ok |-> FALSE, raised |-> "ValueError", message |-> "SGP4 propagation error code"]
        ELSE [ok |-> TRUE,
              speed_kms |-> speed_kms,
              eccentricity |-> sat.ecco,
              anomaly_flags |->
                  LET flags == base.flags
                                 \o (IF 10 * speed_kms > 85 THEN <<"Hypervelocity">> ELSE <<>>)
                                 \o (IF speed_kms > 10 THEN <<"CRITICAL: Extreme">> ELSE <<>>)
                  IN  IF flags = <<>> THEN <<"Nominal orbit">> ELSE flags]

InitTle ==
    /\ tleIn \in ElementSets
    /\ tleOut = None
    /\ cdmIn = None /\ cdmOut = None
    /\ caIn = None /\ caOut = None /\ covs = None
    /\ pcIn = None /\ pcOut = None /\ pipeIn = None /\ pipeOut = None
    /\ LibIdle
    /\ sources = <<>> /\ fusion_history = <<>> /\ ca_hbr = DefaultHbr
    /\ events = <<>> /\ now = 0 /\ nops = 0
    /\ resp = [op |-> "none", status |-> 0, event_id |-> None, body |-> None,
               calls |-> <<>>]

\* propagate_tle(line1, line2), whatever sat.sgp4 makes of the elements
PropagateTleCall ==
    /\ tleOut = None
    /\ \E error_code \in Sgp4ErrorCodes, speed_kms \in SpeedSamples :
           tleOut' = propagate_tle(tleIn, error_code, speed_kms)
    /\ UNCHANGED <<tleIn, cdmIn, cdmOut, caIn, caOut, covs, pcIn, pcOut, pipeIn, pipeOut>>
    /\ UNCHANGED apiVars
    /\ UNCHANGED libVars

NextTle == PropagateTleCall

SpecTle == InitTle /\ [][NextTle]_vars

\* the element set meets the three constraints of the claim
ElementsInRange(elements) ==
    /\ 0 <= elements.ecc /\ elements.ecc < EccScale
    /\ elements.mean_motion > 0
    /\ 0 <= elements.inclination /\ elements.inclination <= 180

\* C20, as claimed: an element set with eccentricity outside [0, 1), mean
\* motion <= 0 or inclination outside [0, 180] degrees makes propagate_tle
\* fail with the invalid-element error (a ValueError of the validation) and
\* return no state; a state is returned only for element sets within all
\* three ranges.
C20_InvalidElementsRejected ==
    (tleOut # None /\ ~ElementsInRange(tleIn))
    => /\ ~tleOut.ok
       /\ tleOut.raised = "ValueError"
       /\ tleOut.message \in {"Invalid eccentricity", "Invalid mean motion",
                               "Invalid inclination"}

(***************************************************************************)
(* Catalog screening (src/src/ssa/screening.py, src/src/ssa/forecast.py,   *)
(* specification SpecScreen): a catalog is screened once and forecast      *)
(* once.  Positions in km, distances as squares.                           *)
(***************************************************************************)
\* catalogs of up to MaxScr objects drawn from the samples (and one crowded
\* catalog)
MaxScr == 3

\* a dict as the sequence of its items in insertion order: a new key goes
\* last, an existing key keeps its place and takes the new value
DictHas(d, key) == \E i \in 1..Len(d) : d[i].key = key
DictGet(d, key) == d[CHOOSE i \in 1..Len(d) : d[i].key = key].value
DictPut(d, key, value) ==
    IF DictHas(d, key)
    THEN [i \in 1..Len(d) |-> IF d[i].key = key THEN [key |-> key, value |-> value] ELSE d[i]]
    ELSE Append(d, [key |-> key, value |-> value])

\* names with the flags get_active_catalog derives from them
IndianNames == {"GSAT-1", "GSAT-2"}
DebrisNames == {"COSMOS DEB"}

Sat(name, tle) ==
    [name |-> name, tle |-> tle,
     is_indian |-> name \in IndianNames, is_debris |-> name \in DebrisNames]

\* an element set with what sat.sgp4 makes of it at the instant asked for
GoodTle(x) ==
    [elements |-> [ecc |-> 1234, mean_motion |-> 15, inclination |-> 45],
     error_code |-> 0, speed_kms |-> 7, position_eci_km |-> <<R0 + x, 0, 0>>]

\* elements that fail the validation, and elements sgp4 gives up on
BadTles ==
    { [GoodTle(0) EXCEPT !.elements.ecc = EccScale],
      [GoodTle(0) EXCEPT !.error_code = 1] }

TleSamples == {GoodTle(x) : x \in {0, 3, 100, 400}} \cup BadTles

SatSamples ==
    {Sat(name, tle) : name \in {"GSAT-1", "COSMOS 1", "COSMOS 2", "COSMOS DEB"},
                      tle \in TleSamples}

\* seven payloads and two Indian assets 10 km apart along a line
CrowdNames ==
    <<"COSMOS 1", "COSMOS 2", "COSMOS 3", "COSMOS 4", "COSMOS 5",
      "COSMOS 6", "COSMOS 7", "GSAT-1", "GSAT-2">>

CrowdedCatalog == [i \in 1..Len(CrowdNames) |-> Sat(CrowdNames[i], GoodTle(10 * i))]

ScrCatalogs ==
    UNION {[1..n -> SatSamples] : n \in 0..MaxScr} \cup {CrowdedCatalog}

\* propagate_tle(sat["line1"], sat["line2"], dt)
PropagateSat(sat) ==
    propagate_tle(sat.tle.elements, sat.tle.error_code, sat.tle.speed_kms)

\* the loop of get_current_positions from entry i on
RECURSIVE PositionsLoop(_, _, _)
PositionsLoop(catalog, i, positions) ==
    IF i > Len(catalog) THEN positions
    ELSE LET sat == catalog[i]
             result == PropagateSat(sat)
         IN  IF ~result.ok THEN PositionsLoop(catalog, i + 1, positions)
             ELSE PositionsLoop(catalog, i + 1,
                      DictPut(positions, sat.name,
                              [pos |-> sat.tle.position_eci_km, data |-> result,
                               meta |-> sat]))

get_current_positions(catalog) == PositionsLoop(catalog, 1, <<>>)

\* pairs (i, j), i < j, of a list of n names, in the order of the two loops
PairAt(n, k) ==
    CHOOSE p \in (1..n) \X (1..n) :
        /\ p[1] < p[2]
        /\ Cardinality({q \in (1..n) \X (1..n) :
               /\ q[1] < q[2]
               /\ (q[1] < p[1] \/ (q[1] = p[1] /\ q[2] < p[2]))}) = k - 1

\* the risk dict of a pair of screened objects
RiskOfPair(positions, i, j) ==
    LET a == positions[i].value
        b == positions[j].value
        dist2 == Norm2(VecSub(a.pos, b.pos))
        indian == a.meta.is_indian \/ b.meta.is_indian
        debris == a.meta.is_debris \/ b.meta.is_debris
    IN  [primary |-> positions[i].key,
         secondary |-> positions[j].key,
         distance2 |-> dist2,
         primary_indian |-> a.meta.is_indian,
         secondary_indian |-> b.meta.is_indian,
         debris_involved |-> debris,
         anomalies |-> a.data.anomaly_flags \o b.data.anomaly_flags,
         defense_alert |->
             (IF indian THEN <<"THREAT TO INDIAN SOVEREIGN ASSET - iDEX ADITI PRIORITY">>
              ELSE <<>>)
             \o (IF debris THEN <<"| DEBRIS THREAT">> ELSE <<>>),
         risk_level |->
             IF indian
             THEN (IF dist2 < 5 * 5 THEN "CRITICAL"
                   ELSE IF dist2 < 20 * 20 THEN "ELEVATED" ELSE "MONITOR")
             ELSE (IF dist2 < 10 * 10 THEN "ELEVATED" ELSE "MONITOR")]

\* list.sort(key=...) of a list whose keys are pairs of numbers: stable, so
\* an entry goes behind the entries with a smaller key and the earlier
\* entries with the same key
KeyLess(a, b) == a[1] < b[1] \/ (a[1] = b[1] /\ a[2] < b[2])

SortByKey(list, keys) ==
    LET rank(i) == Cardinality({j \in 1..Len(list) :
                       \/ KeyLess(keys[j], keys[i])
                       \/ (keys[j] = keys[i] /\ j < i)}) + 1
    IN  [k \in 1..Len(list) |-> list[CHOOSE i \in 1..Len(list) : rank(i) = k]]

\* (x.get("defense_alert") is not None, x["distance_km"]); False < True
RiskKey(x) == <<IF x.defense_alert # <<>> THEN 1 ELSE 0, x.distance2>>

\* "return risks[:30]"
TopRisks == 30

assess_conjunction_risks(positions) ==
    LET n == Len(positions)
        npairs == (n * (n - 1)) \div 2
        all == [k \in 1..npairs |-> RiskOfPair(positions, PairAt(n, k)[1], PairAt(n, k)[2])]
        risks == SelectSeq(all, LAMBDA r : r.distance2 < 150 * 150)
        sorted == SortByKey(risks, [i \in 1..Len(risks) |-> RiskKey(risks[i])])
    IN  SubSeq(sorted, 1, Min(TopRisks, Len(sorted)))

\* lines 62-65 of screen_conjunctions on the catalog it was given
screen_conjunctions(catalog) ==
    LET positions == get_current_positions(catalog)
        risks == assess_conjunction_risks(positions)
    IN  [positions |-> positions,
         satellites_screened |-> Len(positions),
         total_close_approaches |-> Len(risks),
         indian_asset_threats |-> Len(SelectSeq(risks, LAMBDA r : r.defense_alert # <<>>)),
         top_risks |-> risks]

\* "forecast_risks[:20]"
TopForecast == 20

\* name -> position of the objects that propagate, as the loop of
\* forecast_indian_threats fills it
RECURSIVE ForecastPositions(_, _, _)
ForecastPositions(catalog, i, positions) ==
    IF i > Len(catalog) THEN positions
    ELSE IF ~PropagateSat(catalog[i]).ok THEN ForecastPositions(catalog, i + 1, positions)
    ELSE ForecastPositions(catalog, i + 1,
             DictPut(positions, catalog[i].name, catalog[i].tle.position_eci_km))

PredictedKey(x) == <<0, x.predicted_distance2>>

\* one step of forecast_indian_threats on the catalog; each risk also
\* records, as pair, the places in the catalog of the two entries it was
\* computed for
forecast_indian_threats(catalog) ==
    LET idx == 1..Len(catalog)
        positions == ForecastPositions(catalog, 1, <<>>)
        n == Len(catalog)
        all == [k \in 1..(n * n) |->
                   LET i == ((k - 1) \div n) + 1
                       j == ((k - 1) % n) + 1
                   IN  IF /\ catalog[i].is_indian /\ ~catalog[j].is_indian
                          /\ DictHas(positions, catalog[i].name)
                          /\ DictHas(positions, catalog[j].name)
                       THEN [hit |-> TRUE, pair |-> <<i, j>>,
                             indian_asset |-> catalog[i].name,
                             threat_object |-> catalog[j].name,
                             predicted_distance2 |->
                                 Norm2(VecSub(DictGet(positions, catalog[i].name),
                                              DictGet(positions, catalog[j].name)))]
                       ELSE [hit |-> FALSE, pair |-> <<i, j>>,
                             indian_asset |-> catalog[i].name,
                             threat_object |-> catalog[j].name,
                             predicted_distance2 |-> 0]]
        risks == SelectSeq(all, LAMBDA r : r.hit /\ r.predicted_distance2 < 200 * 200)
        sorted == SortByKey(risks, [i \in 1..Len(risks) |-> PredictedKey(risks[i])])
    IN  IF \A i \in idx : ~catalog[i].is_indian
        THEN [status |-> "No Indian assets in current snapshot", forecast |-> <<>>]
        ELSE [status |-> "ok",
              total_predicted_risks |-> Len(sorted),
              forecast |-> SubSeq(sorted, 1, Min(TopForecast, Len(sorted)))]

InitScreen ==
    /\ scrIn \in ScrCatalogs
    /\ scrOut = [screen |-> None, forecast |-> None]
    /\ ZonIdle /\ CatIdle /\ IssIdle /\ threads = None /\ loop = None
    /\ pcIn = None /\ pcOut = None /\ pipeIn = None /\ pipeOut = None
    /\ caIn = None /\ caOut = None /\ covs = None
    /\ cdmIn = None /\ cdmOut = None
    /\ tleIn = None /\ tleOut = None
    /\ sources = <<>> /\ fusion_history = <<>> /\ ca_hbr = DefaultHbr
    /\ events = <<>> /\ now = 0 /\ nops = 0
    /\ resp = [op |-> "none", status |-> 0, event_id |-> None, body |-> None,
               calls |-> <<>>]

\* screen_conjunctions() when get_active_catalog returns the catalog
ScreenCall ==
    /\ scrOut.screen = None
    /\ scrOut' = [scrOut EXCEPT !.screen = screen_conjunctions(scrIn)]
    /\ UNCHANGED <<scrIn, zonVars, catVars, issVars, threads, loop>>
    /\ UNCHANGED apiVars
    /\ UNCHANGED callVars

\* forecast_indian_threats() when get_active_catalog returns the catalog
ForecastCall ==
    /\ scrOut.forecast = None
    /\ scrOut' = [scrOut EXCEPT !.forecast = forecast_indian_threats(scrIn)]
    /\ UNCHANGED <<scrIn, zonVars, catVars, issVars, threads, loop>>
    /\ UNCHANGED apiVars
    /\ UNCHANGED callVars

NextScreen ==
    \/ ScreenCall
    \/ ForecastCall

SpecScreen == InitScreen /\ [][NextScreen]_vars

\* the catalog entries that propagate, and those that fail
Propagates(i) == PropagateSat(scrIn[i]).ok

\* C21, as claimed: a catalog object whose propagation or validation fails
\* is skipped and the screening goes on: no screened position and no
\* forecast risk belongs to a failing object, and every object that
\* propagates is among the screened positions.
C21_FailureIsPerObjectSkip ==
    /\ scrOut.screen # None
       => LET positions == scrOut.screen.positions
          IN  /\ \A i \in 1..Len(scrIn) :
                     ~Propagates(i)
                     => \A k \in 1..Len(positions) : positions[k].value.meta # scrIn[i]
              /\ \A i \in 1..Len(scrIn) :
                     Propagates(i)
                     => \E k \in 1..Len(positions) : positions[k].value.meta = scrIn[i]
    /\ scrOut.forecast # None
       => \A k \in 1..Len(scrOut.forecast.forecast) :
              LET pair == scrOut.forecast.forecast[k].pair
              IN  Propagates(pair[1]) /\ Propagates(pair[2])

\* the pairs of screened objects closer than 150 km that carry a defense
\* alert (an Indian asset or debris is involved)
AlertedPairs(positions) ==
    {p \in (1..Len(positions)) \X (1..Len(positions)) :
        /\ p[1] < p[2]
        /\ RiskOfPair(positions, p[1], p[2]).distance2 < 150 * 150
        /\ RiskOfPair(positions, p[1], p[2]).defense_alert # <<>>}

\* C25, as claimed: in the list assess_conjunction_risks returns, every risk
\* with a defense alert precedes every risk without one, the risks of each
\* group are in ascending distance, and when a risk without an alert is in
\* the list, no risk with an alert was cut off by the truncation.
C25_ThreatsFirst ==
    scrOut.screen # None
    => LET risks == scrOut.screen.top_risks
           alerted(k) == risks[k].defense_alert # <<>>
       IN  /\ \A i \in 1..Len(risks) : \A j \in 1..Len(risks) :
                  i < j => /\ alerted(j) => alerted(i)
                           /\ alerted(i) = alerted(j)
                              => risks[i].distance2 <= risks[j].distance2
           /\ (\E k \in 1..Len(risks) : ~alerted(k))
              => Cardinality({k \in 1..Len(risks) : alerted(k)})
                   = Cardinality(AlertedPairs(scrOut.screen.positions))

(***************************************************************************)
(* Concurrent assess requests (specification SpecConc).  conjunction_assess *)
(* is a plain def, which FastAPI runs on a pool of worker threads; each    *)
(* thread is followed from one access of the shared objects (_ca_engine,   *)
(* fusion_engine, CONJUNCTION_EVENTS) to the next.                         *)
(***************************************************************************)
\* worker threads serving one request each
MaxThreads == 2

ThreadIds == 1..MaxThreads

\* a radar that has seen SAT-1 and, head-on at the same place, SAT-2
SeenSources ==
    <<[name |-> "radar", reliability |-> 1,
       observations |->
           <<[timestamp |-> 0, object_id |-> "SAT-1", position |-> <<R0, 0, 0>>,
              velocity |-> <<0, V0, 0>>, confidence |-> 1, source |-> "radar"],
             [timestamp |-> 0, object_id |-> "SAT-2", position |-> <<R0, 0, 0>>,
              velocity |-> <<0, -V0, 0>>, confidence |-> 1, source |-> "radar"]>>]>>

\* the head-on pair with radius 10 m and with radius 100 m, and a request for
\* an object nobody has seen
ConcRequests ==
    {req \in GoodRequests :
        /\ req.object2_id \in {"SAT-2", "GHOST"}
        /\ req.window_s = 1000}

IdleThread == [at |-> "idle", req |-> None, ca |-> None, pc |-> None, status |-> 0]

InitConc ==
    /\ threads = [t \in ThreadIds |-> IdleThread]
    /\ sources = SeenSources
    /\ fusion_history = <<>> /\ ca_hbr = DefaultHbr
    /\ events = <<>> /\ now = 0 /\ nops = 0
    /\ resp = [op |-> "none", status |-> 0, event_id |-> None, body |-> None,
               calls |-> <<>>]
    /\ ScrIdle /\ ZonIdle /\ CatIdle /\ IssIdle /\ loop = None
    /\ pcIn = None /\ pcOut = None /\ pipeIn = None /\ pipeOut = None
    /\ caIn = None /\ caOut = None /\ covs = None
    /\ cdmIn = None /\ cdmOut = None
    /\ tleIn = None /\ tleOut = None

ConcUnchanged ==
    /\ UNCHANGED <<sources, fusion_history, now, nops, resp>>
    /\ UNCHANGED <<scrVars, zonVars, catVars, issVars, loop>>
    /\ UNCHANGED callVars

\* a worker thread is handed a validated request and enters the handler
ConcEnter(t) ==
    \E req \in ConcRequests :
        /\ threads[t].at = "idle"
        /\ threads' = [threads EXCEPT ![t] = [IdleThread EXCEPT !.at = "set_hbr", !.req = req]]
        /\ UNCHANGED <<ca_hbr, events>>
        /\ ConcUnchanged

\* _ca_engine.hard_body_radius_m = float(req.hard_body_radius_m)
ConcSetHbr(t) ==
    /\ threads[t].at = "set_hbr"
    /\ ca_hbr' = threads[t].req.hbr
    /\ threads' = [threads EXCEPT ![t].at = "search"]
    /\ UNCHANGED events
    /\ ConcUnchanged

\* the two state lookups (404 when one finds nothing), the covariances and
\* closest_approach, all on the thread's own values
ConcSearch(t) ==
    /\ threads[t].at = "search"
    /\ LET req == threads[t].req
           s1 == latest_fused_state(req.object1_id)
           s2 == latest_fused_state(req.object2_id)
       IN  IF s1 = NotFound \/ s2 = NotFound
           THEN threads' = [threads EXCEPT ![t].at = "done", ![t].status = 404]
           ELSE threads' = [threads EXCEPT ![t].at = "pc",
                               ![t].ca = closest_approach(s1, s2, req.window_s, req.step_s)]
    /\ UNCHANGED <<ca_hbr, events>>
    /\ ConcUnchanged

\* the covariances the handler propagated for the request
ConcCov(req) == propagate(init_covariance(req.sigma_pos, req.sigma_vel), req.window_s)

\* pc = _ca_engine.collision_probability(...), which reads
\* self.hard_body_radius_m as it is at that moment
ConcPc(t) ==
    /\ threads[t].at = "pc"
    /\ threads' = [threads EXCEPT ![t].at = "store",
                       ![t].pc = collision_probability(threads[t].ca.miss2,
                                     ConcCov(threads[t].req), ConcCov(threads[t].req), ca_hbr)]
    /\ UNCHANGED <<ca_hbr, events>>
    /\ ConcUnchanged

\* CONJUNCTION_EVENTS[event_id] = event, and the answer
ConcStore(t) ==
    /\ threads[t].at = "store"
    /\ LET req == threads[t].req
           s1 == latest_fused_state(req.object1_id)
           s2 == latest_fused_state(req.object2_id)
           inputs == [object1_id |-> req.object1_id, object2_id |-> req.object2_id,
                      tca_utc |-> now, miss2 |-> threads[t].ca.miss2, pc |-> threads[t].pc.pc]
       IN  \E event_id \in NewEventIds(events, inputs) :
               events' = StoreEvent(events, event_id,
                             BuildEvent(req, event_id, s1, s2, ConcCov(req), ConcCov(req),
                                        threads[t].ca, threads[t].pc))
    /\ threads' = [threads EXCEPT ![t].at = "done", ![t].status = 200]
    /\ UNCHANGED ca_hbr
    /\ ConcUnchanged

NextConc ==
    \E t \in ThreadIds :
        \/ ConcEnter(t)
        \/ ConcSetHbr(t)
        \/ ConcSearch(t)
        \/ ConcPc(t)
        \/ ConcStore(t)

SpecConc == InitConc /\ [][NextConc]_vars

\* C22, as claimed: whatever the interleaving, the Pc of each request is the
\* Pc computed with the hard-body radius of that request.
C22_OwnHardBodyRadius ==
    \A t \in ThreadIds :
        threads[t].pc # None
        => threads[t].pc = collision_probability(threads[t].ca.miss2,
                               ConcCov(threads[t].req), ConcCov(threads[t].req),
                               threads[t].req.hbr)

(***************************************************************************)
(* Failed requests and the fusion history (specification Spec).            *)
(***************************************************************************)
\* C26, as claimed: an assess request answered 404 (no state found for one
\* of its two objects) leaves the shared state as it was: the event store
\* and the hard-body radius of the shared assessment engine.
C26_FailedAssessLeavesState ==
    [][ (now' = now /\ resp'.op = "assess" /\ resp'.status = 404)
        => /\ events' = events
           /\ ca_hbr' = ca_hbr ]_vars

(***************************************************************************)
(* The fusion engine with two sources (specification SpecFus): sources are *)
(* registered, observations with and without position and velocity are     *)
(* ingested, the object is fused, and _latest_fused_state is asked.        *)
(***************************************************************************)
\* at most MaxFusOps register, ingest, fuse calls and clock ticks
MaxFusOps == 5

FusSourceNames == {"radar", "optical"}
FusObjectIds == {"SAT-1", "GHOST"}

\* payloads for SAT-1: two complete ones, one without velocity, one empty
FusObsSamples ==
    { [position |-> <<R0, 0, 0>>, velocity |-> <<0, V0, 0>>],
      [position |-> <<R0 + 2, 0, 0>>, velocity |-> <<0, V0, 0>>],
      [position |-> <<R0 + 4, 0, 0>>, velocity |-> None],
      [position |-> None, velocity |-> None] }

FusResp(op, status, body) ==
    [op |-> op, status |-> status, event_id |-> None, body |-> body, calls |-> <<>>]

FusUnchanged ==
    /\ UNCHANGED <<ca_hbr, events>>
    /\ UNCHANGED callVars
    /\ UNCHANGED libVars

\* POST /fusion/source/register
FusRegister ==
    \E name \in FusSourceNames, reliability \in {0, 1} :
        /\ nops < MaxFusOps
        /\ nops' = nops + 1
        /\ sources' = register_source(name, reliability)
        /\ resp' = FusResp("register", 200, None)
        /\ UNCHANGED <<fusion_history, now>>
        /\ FusUnchanged

\* POST /fusion/ingest for a registered source
FusIngest ==
    \E name \in FusSourceNames, data \in FusObsSamples :
        /\ SourceIndex(name) # 0
        /\ nops < MaxFusOps
        /\ nops' = nops + 1
        /\ LET observation == [timestamp |-> now, object_id |-> "SAT-1",
                               position |-> data.position, velocity |-> data.velocity,
                               confidence |-> 1, source |-> name]
           IN  /\ sources' = [sources EXCEPT ![SourceIndex(name)].observations =
                                  Append(@, observation)]
               /\ resp' = FusResp("ingest", 200, observation)
        /\ UNCHANGED <<fusion_history, now>>
        /\ FusUnchanged

\* POST /fusion/fuse/{object_id}
FusFuse ==
    \E obj_id \in FusObjectIds :
        LET result == fuse(obj_id, 1)
        IN  /\ nops < MaxFusOps
            /\ nops' = nops + 1
            /\ fusion_history' = IF "error" \in DOMAIN result THEN fusion_history
                                 ELSE Append(fusion_history, result)
            /\ resp' = FusResp("fuse", 200, result)
            /\ UNCHANGED <<sources, now>>
            /\ FusUnchanged

\* _latest_fused_state(object_id), as conjunction_assess calls it
FusLookup ==
    \E object_id \in FusObjectIds :
        LET state == latest_fused_state(object_id)
        IN  /\ resp' = FusResp("lookup", IF state = NotFound THEN 404 ELSE 200,
                               [object_id |-> object_id, state |-> state])
            /\ UNCHANGED <<sources, fusion_history, now, nops>>
            /\ FusUnchanged

\* time passes between requests
FusTick ==
    /\ nops < MaxFusOps
    /\ nops' = nops + 1
    /\ now' = now + 1
    /\ UNCHANGED <<sources, fusion_history, resp>>
    /\ FusUnchanged

NextFus ==
    \/ FusRegister
    \/ FusIngest
    \/ FusFuse
    \/ FusLookup
    \/ FusTick

SpecFus == Init /\ [][NextFus]_vars

\* the observations of the object, in any source, that carry both a
\* position and a velocity
CompleteObs(object_id) ==
    UNION { {src.observations[i] : i \in ObsHits(src, object_id)} :
            src \in {sources[k] : k \in 1..Len(sources)} }

\* C30, as claimed: every entry of fusion_history carries an object id, a
\* position and a velocity; _latest_fused_state returns the position and
\* velocity of the newest history entry of an object that has one, and
\* otherwise those of the newest observation of the object that has both a
\* position and a velocity (404 when there is none).
C30_HistoryCompleteNewestObservation ==
    /\ \A i \in 1..Len(fusion_history) :
           /\ {"object_id", "position", "velocity"} \subseteq DOMAIN fusion_history[i]
           /\ fusion_history[i].position # None
           /\ fusion_history[i].velocity # None
    /\ resp.op = "lookup"
       => LET object_id == resp.body.object_id
              state == resp.body.state
          IN  IF HistoryHits(object_id) # {}
              THEN LET item == fusion_history[SetMax(HistoryHits(object_id))]
                   IN  /\ resp.status = 200
                       /\ state = [position |-> item.position, velocity |-> item.velocity]
              ELSE IF CompleteObs(object_id) = {}
              THEN resp.status = 404
              ELSE /\ resp.status = 200
                   /\ \E o \in CompleteObs(object_id) :
                          /\ \A p \in CompleteObs(object_id) : p.timestamp <= o.timestamp
                          /\ state = [position |-> o.position, velocity |-> o.velocity]

(***************************************************************************)
(* The analytic filter and its horizon (specification SpecCa)              *)
(***************************************************************************)
\* |dr + t dv|^2 for the pair of caIn at whole time t
RelDistance2At(t) ==
    distance_at_t(caIn.state1, caIn.state2, t)

\* C23, as claimed: the time of closest approach returned by short_arc_tca
\* lies in [0, H], H the pipeline's horizon t_span, and the returned miss
\* distance is the separation at that clamped time: the separation at 0 for a
\* pair drawing apart, the separation at H for a pair closest after H.
C23_ShortArcClamped ==
    (caOut # None /\ caOut.arc # None)
    => LET arc == caOut.arc
           rel_r == VecSub(caIn.state1[1], caIn.state2[1])
           rel_v == VecSub(caIn.state1[2], caIn.state2[2])
           unclamped_num == -Dot(rel_r, rel_v)
           vv == Dot(rel_v, rel_v)
       IN  /\ 0 <= arc.tca_num
           /\ arc.tca_num <= caIn.t_span * arc.tca_den
           /\ vv # 0 /\ unclamped_num < 0
              => arc.miss2_num = RelDistance2At(0) * arc.miss2_den
           /\ vv # 0 /\ unclamped_num > caIn.t_span * vv
              => arc.miss2_num = RelDistance2At(caIn.t_span) * arc.miss2_den

(***************************************************************************)
(* The zonal perturbations (specification SpecZon),                        *)
(* src/src/ssa_engine/perturbations.  A position is radius * dir / dn with *)
(* radius in whole metres and dir an integer direction of length dn, so    *)
(* that its norm is the radius exactly.  An acceleration is written in the *)
(* positive, position-dependent unit of its leading factor: the J2         *)
(* acceleration in units of 3 mu J2 R^2 radius / (2 r^5 dn^3), the J3 part *)
(* in units of 3 mu |J3| R^3 radius^2 / (2 r^7 dn^4), the J4 part in units *)
(* of 5 mu |J4| R^4 radius / (8 r^9 dn^5).  A vector is zero exactly when  *)
(* its three numbers in these units are zero.                              *)
(***************************************************************************)
\* radii up to MaxFloorOffset metres on either side of the altitude floor
MaxFloorOffset == 1

R_EARTH == 6378137
\* "if r < 1000.0" of j2_acceleration
J2Floor == 1000
\* "R_EARTH + 100000.0" of higher_zonal_acceleration
ZonalFloorAlt == 100000

ApiIdle ==
    /\ sources = <<>> /\ fusion_history = <<>> /\ ca_hbr = DefaultHbr
    /\ events = <<>> /\ now = 0 /\ nops = 0
    /\ resp = [op |-> "none", status |-> 0, event_id |-> None, body |-> None,
               calls |-> <<>>]

CallIdle ==
    /\ pcIn = None /\ pcOut = None /\ pipeIn = None /\ pipeOut = None
    /\ caIn = None /\ caOut = None /\ covs = None
    /\ cdmIn = None /\ cdmOut = None
    /\ tleIn = None /\ tleOut = None

\* <<dir, dn>> with |dir| = dn: the axes, the poles, two inclined directions
ZonDirections ==
    { <<<<1, 0, 0>>, 1>>, <<<<0, 1, 0>>, 1>>, <<<<0, 0, 1>>, 1>>,
      <<<<0, 0, -1>>, 1>>, <<<<3, 0, 4>>, 5>>, <<<<1, 2, 2>>, 3>> }

ZonRadii ==
    {0, J2Floor - 1, J2Floor, R_EARTH, 7000000}
    \cup { R_EARTH + ZonalFloorAlt + k : k \in (-MaxFloorOffset)..MaxFloorOffset }

ZonInputs ==
    [r_vec : [radius : ZonRadii, dir : {d[1] : d \in ZonDirections}, dn : {1, 3, 5}],
     include_j3 : BOOLEAN, include_j4 : BOOLEAN]

\* np.linalg.norm(r_vec)
ZonNorm(r_vec) == r_vec.radius

ZeroVec == <<0, 0, 0>>

\* j2_acceleration(r_vec)
j2_acceleration(r_vec) ==
    LET r == ZonNorm(r_vec)
        d == r_vec.dir
        n2 == r_vec.dn * r_vec.dn
        z2 == d[3] * d[3]
    IN  IF r < J2Floor
        THEN ZeroVec
        ELSE << -(d[1] * (n2 - 5 * z2)),
                -(d[2] * (n2 - 5 * z2)),
                -(d[3] * (3 * n2 - 5 * z2)) >>

\* the J3 terms added to a; J3 < 0
ZonalJ3(r_vec) ==
    LET d == r_vec.dir
        n2 == r_vec.dn * r_vec.dn
        z2 == d[3] * d[3]
        factor == -d[3]
        common == 5 * z2 - n2
    IN  << factor * d[1] * common,
           factor * d[2] * common,
           factor * d[3] * (5 * z2 - 3 * n2) >>

\* the J4 terms added to a; J4 < 0, so the factor is positive
ZonalJ4(r_vec) ==
    LET d == r_vec.dir
        n2 == r_vec.dn * r_vec.dn
        z2 == d[3] * d[3]
        common == 35 * z2 * z2 - 30 * z2 * n2 + 3 * n2 * n2
    IN  << d[1] * common, d[2] * common, d[3] * common >>

\* higher_zonal_acceleration(r_vec, include_j3, include_j4): the J3 and the
\* J4 part of the sum a, each in its unit
higher_zonal_acceleration(r_vec, include_j3, include_j4) ==
    LET r == ZonNorm(r_vec)
    IN  IF r < R_EARTH + ZonalFloorAlt
        THEN [j3 |-> ZeroVec, j4 |-> ZeroVec]
        ELSE [j3 |-> IF include_j3 THEN ZonalJ3(r_vec) ELSE ZeroVec,
              j4 |-> IF include_j4 THEN ZonalJ4(r_vec) ELSE ZeroVec]

InitZon ==
    /\ zonIn \in ZonInputs
    /\ <<zonIn.r_vec.dir, zonIn.r_vec.dn>> \in ZonDirections
    /\ zonOut = [j2 |-> None, higher |-> None]
    /\ ScrIdle /\ CatIdle /\ IssIdle /\ threads = None /\ loop = None
    /\ CallIdle
    /\ ApiIdle

J2Call ==
    /\ zonOut.j2 = None
    /\ zonOut' = [zonOut EXCEPT !.j2 = j2_acceleration(zonIn.r_vec)]
    /\ UNCHANGED <<zonIn, scrVars, catVars, issVars, threads, loop>>
    /\ UNCHANGED apiVars
    /\ UNCHANGED callVars

HigherZonalCall ==
    /\ zonOut.higher = None
    /\ zonOut' = [zonOut EXCEPT !.higher =
                      higher_zonal_acceleration(zonIn.r_vec, zonIn.include_j3,
                                                zonIn.include_j4)]
    /\ UNCHANGED <<zonIn, scrVars, catVars, issVars, threads, loop>>
    /\ UNCHANGED apiVars
    /\ UNCHANGED callVars

NextZon ==
    \/ J2Call
    \/ HigherZonalCall

SpecZon == InitZon /\ [][NextZon]_vars

\* C24, as claimed: for a position below R_EARTH + 100 km the J2 acceleration
\* and the J3 and J4 parts of the higher zonal acceleration are all the zero
\* vector.
C24_ZonalsZeroBelowFloor ==
    (zonIn # None /\ ZonNorm(zonIn.r_vec) < R_EARTH + ZonalFloorAlt)
    => /\ zonOut.j2 \in {None, ZeroVec}
       /\ zonOut.higher \in {None, [j3 |-> ZeroVec, j4 |-> ZeroVec]}

(***************************************************************************)
(* The catalog cache (specification SpecCat), src/src/ssa/catalog.py.      *)
(* The clock counts minutes.  A response text is the sequence of its       *)
(* stripped lines, a line the record of its text and of what it starts     *)
(* with: "1" for "1 ", "2" for "2 ", "" otherwise.                         *)
(***************************************************************************)
\* at most MaxCatCalls calls of get_active_catalog, the clock up to
\* MaxCatMinutes
MaxCatCalls == 3
MaxCatMinutes == 6

\* timedelta(minutes=5)
CacheMinutes == 5

TextLine(text) == [text |-> text, starts |-> ""]
Line1(text) == [text |-> text, starts |-> "1"]
Line2(text) == [text |-> text, starts |-> "2"]

\* raw.strip().splitlines() of the responses: three objects; an object with
\* a blank name line; a damaged first object and a cut-off last one; nothing
CatResponses ==
    { << TextLine("GSAT-1"), Line1("1 a"), Line2("2 a"),
         TextLine("COSMOS DEB"), Line1("1 b"), Line2("2 b"),
         TextLine("COSMOS 1"), Line1("1 c"), Line2("2 c") >>,
      << TextLine("COSMOS 2"), Line1("1 d"), Line2("2 d"),
         TextLine(""), Line1("1 e"), Line2("2 e") >>,
      << TextLine("COSMOS 1"), TextLine("garbled"), Line2("2 c"),
         TextLine("GSAT-2"), Line1("1 f"), Line2("2 f"),
         TextLine("COSMOS 2"), Line1("1 d") >>,
      << >> }

\* the outcomes of _fetch_raw_tle(): a response, or an exception
FetchFailed == [ok |-> FALSE, lines |-> <<>>]
FetchOutcomes == {FetchFailed} \cup { [ok |-> TRUE, lines |-> r] : r \in CatResponses }

CatLimits == {-1, 0, 1, 2, 300}

\* f"OBJECT {len(catalog)+1}"
ObjectName(n) == <<"OBJECT", n>>

RECURSIVE ParseCatalog(_, _, _)
\* the while loop over the triples of lines
ParseCatalog(lines, i, catalog) ==
    IF ~(i < Len(lines) - 2)
    THEN catalog
    ELSE LET name == IF lines[i + 1].text # "" THEN <<lines[i + 1].text>>
                     ELSE ObjectName(Len(catalog) + 1)
             line1 == lines[i + 2]
             line2 == lines[i + 3]
             entry == [name |-> name, line1 |-> line1.text, line2 |-> line2.text,
                       is_indian |-> \E n \in IndianNames : name = <<n>>,
                       is_debris |-> \E n \in DebrisNames : name = <<n>>]
         IN  ParseCatalog(lines, i + 3,
                          IF line1.starts = "1" /\ line2.starts = "2"
                          THEN Append(catalog, entry) ELSE catalog)

\* list[:limit]; a negative limit counts from the end
Prefix(list, limit) ==
    IF limit >= 0 THEN SubSeq(list, 1, Min(limit, Len(list)))
    ELSE SubSeq(list, 1, Max(0, Len(list) + limit))

\* "_catalog_cache and (now - _cache_time) < timedelta(minutes=5)"
CacheFresh == catalog_cache # <<>> /\ (now - cache_time) < CacheMinutes

CatResult(cache, time, fetched, error, result) ==
    [cache |-> cache, time |-> time, fetched |-> fetched, error |-> error,
     result |-> result]

\* a failed fetch that empties the cache
FetchFailureClearsCache ==
    CatResult(<<>>, cache_time, TRUE, <<"RuntimeError">>, <<>>)

\* lines 34-65 when _fetch_raw_tle raises: RuntimeError, the globals as they
\* were
FetchFailure ==
    CatResult(catalog_cache, cache_time, TRUE, <<"RuntimeError">>, <<>>)

\* get_active_catalog(limit) with the outcome of the fetch, if one is made
get_active_catalog(limit, outcome) ==
    IF CacheFresh
    THEN CatResult(catalog_cache, cache_time, FALSE, <<>>, Prefix(catalog_cache, limit))
    ELSE IF ~outcome.ok
    THEN FetchFailure
    ELSE LET catalog == ParseCatalog(outcome.lines, 0, <<>>)
         IN  CatResult(catalog, now, TRUE, <<>>, Prefix(catalog, limit))

InitCat ==
    /\ CatIdle
    /\ ScrIdle /\ ZonIdle /\ IssIdle /\ threads = None /\ loop = None
    /\ CallIdle
    /\ ApiIdle

\* one call of get_active_catalog; catOut keeps what the call saw and did
GetCatalog ==
    \E limit \in CatLimits, outcome \in FetchOutcomes :
        LET calls == IF catOut = None THEN 0 ELSE catOut.calls
            r == get_active_catalog(limit, outcome)
        IN  /\ calls < MaxCatCalls
            /\ catalog_cache' = r.cache
            /\ cache_time' = r.time
            /\ catOut' = [calls |-> calls + 1, limit |-> limit, at |-> now,
                          before |-> [cache |-> catalog_cache, time |-> cache_time],
                          fetched |-> r.fetched, error |-> r.error,
                          result |-> r.result]
            /\ UNCHANGED <<scrVars, zonVars, issVars, threads, loop>>
            /\ UNCHANGED apiVars
            /\ UNCHANGED callVars

\* a minute passes
CatTick ==
    /\ now < MaxCatMinutes
    /\ now' = now + 1
    /\ UNCHANGED <<sources, fusion_history, ca_hbr, events, resp, nops>>
    /\ UNCHANGED callVars
    /\ UNCHANGED libVars

NextCat ==
    \/ GetCatalog
    \/ CatTick

SpecCat == InitCat /\ [][NextCat]_vars

\* what C27 says of a call besides the age at which it fetches: the globals
\* change only by a fetch that succeeded, a failed fetch raises RuntimeError
\* with the globals as they were, and a returned list is a prefix of the
\* cached catalog
CacheKeptAndPrefix ==
    /\ (catalog_cache # catOut.before.cache \/ cache_time # catOut.before.time)
       => (catOut.fetched /\ catOut.error = <<>>)
    /\ catOut.error # <<>>
       => /\ catOut.fetched /\ catOut.error = <<"RuntimeError">>
          /\ catalog_cache = catOut.before.cache
          /\ cache_time = catOut.before.time
    /\ catOut.error = <<>>
       => /\ Len(catOut.result) <= Len(catalog_cache)
          /\ catOut.result = SubSeq(catalog_cache, 1, Len(catOut.result))

\* C27, as claimed: a call fetches only when the cache is empty or older than
\* 5 minutes, a returned list has at most limit entries, and the rest as in
\* CacheKeptAndPrefix.
C27_FetchOnlyWhenOlder ==
    catOut # None
    => /\ catOut.fetched
          => (catOut.before.cache = <<>> \/ catOut.at - catOut.before.time > CacheMinutes)
       /\ catOut.error = <<>> => Len(catOut.result) <= catOut.limit
       /\ CacheKeptAndPrefix

\* C27, amended: a call fetches only when the cache is empty or at least 5
\* minutes old; the cache and its timestamp change only by a successful
\* fetch; a failed fetch raises RuntimeError and leaves both; the returned
\* list is a prefix of the cached catalog, of at most limit entries for a
\* limit >= 0 and without the last -limit entries for a limit < 0.
C27_FetchOnlyWhenStale ==
    catOut # None
    => /\ catOut.fetched
          => (catOut.before.cache = <<>> \/ catOut.at - catOut.before.time >= CacheMinutes)
       /\ (catOut.error = <<>> /\ catOut.limit >= 0)
          => Len(catOut.result) <= catOut.limit
       /\ (catOut.error = <<>> /\ catOut.limit < 0)
          => Len(catOut.result) = Max(0, Len(catalog_cache) + catOut.limit)
       /\ CacheKeptAndPrefix

\* a fetch fails over a filled cache exactly 5 minutes old
C27_Witness ==
    /\ catOut # None
    /\ catOut.before.cache # <<>>
    /\ catOut.at - catOut.before.time = CacheMinutes
    /\ catOut.fetched
    /\ catOut.error # <<>>
    /\ catalog_cache = catOut.before.cache

(***************************************************************************)
(* The ISS element-set cache (specification SpecIss),                      *)
(* src/src/ssa/propagator.py; clock and lines as for the catalog cache.    *)
(***************************************************************************)
\* at most MaxIssCalls calls of _fetch_fresh_iss_tle, the clock up to
\* MaxIssMinutes
MaxIssCalls == 3
MaxIssMinutes == 6

\* timedelta(minutes=5)
IssValidMinutes == 5

Hardcoded == <<"HARDCODED_ISS_LINE1", "HARDCODED_ISS_LINE2">>

IssName == "ISS (ZARYA)"

\* response.text.strip().splitlines(): the ISS first; the ISS second, with
\* newer lines; no ISS; the ISS cut off after its first line; the ISS name
\* off the three-line grid; nothing
IssResponses ==
    { << TextLine(IssName), Line1("1 iss"), Line2("2 iss"),
         TextLine("CSS (TIANHE)"), Line1("1 css"), Line2("2 css") >>,
      << TextLine("CSS (TIANHE)"), Line1("1 css"), Line2("2 css"),
         TextLine(IssName), Line1("1 iss new"), Line2("2 iss new") >>,
      << TextLine("CSS (TIANHE)"), Line1("1 css"), Line2("2 css") >>,
      << TextLine("CSS (TIANHE)"), Line1("1 css"), Line2("2 css"),
         TextLine(IssName), Line1("1 iss") >>,
      << TextLine("stations"), TextLine(IssName), Line1("1 iss"), Line2("2 iss") >>,
      << >> }

\* the outcomes of requests.get and raise_for_status
IssOutcomes == {FetchFailed} \cup { [ok |-> TRUE, lines |-> r] : r \in IssResponses }

RECURSIVE FindIss(_, _)
\* "for i in range(0, len(lines), 3)": the index of the first name line on
\* the grid that holds the ISS name and has two lines after it, or -1
FindIss(lines, i) ==
    IF i >= Len(lines) THEN -1
    ELSE IF Len(lines) > i + 2 /\ lines[i + 1].text = IssName THEN i
    ELSE FindIss(lines, i + 3)

\* "_iss_tle_cache and now < _cache_valid_until"
IssCacheValid == iss_tle_cache # None /\ now < cache_valid_until

IssResult(cache, valid_until, fetched, error, result) ==
    [cache |-> cache, valid_until |-> valid_until, fetched |-> fetched,
     error |-> error, result |-> result]

\* an exception of the fetch that leaves the function
IssFetchFailureRaises ==
    IssResult(iss_tle_cache, cache_valid_until, TRUE, <<"Exception">>, <<>>)

\* "except Exception as e": a warning is printed and the hardcoded lines
\* are returned
IssFetchFailure ==
    IssResult(iss_tle_cache, cache_valid_until, TRUE, <<>>, Hardcoded)

\* _fetch_fresh_iss_tle() with the outcome of the fetch, if one is made
fetch_fresh_iss_tle(outcome) ==
    IF IssCacheValid
    THEN IssResult(iss_tle_cache, cache_valid_until, FALSE, <<>>,
                   <<iss_tle_cache[1], iss_tle_cache[2]>>)
    ELSE IF ~outcome.ok
    THEN IssFetchFailure
    ELSE LET i == FindIss(outcome.lines, 0)
         IN  IF i = -1
             THEN IssResult(iss_tle_cache, cache_valid_until, TRUE, <<>>, Hardcoded)
             ELSE LET line1 == outcome.lines[i + 2].text
                      line2 == outcome.lines[i + 3].text
                  IN  IssResult(<<line1, line2, now>>, now + IssValidMinutes, TRUE,
                                <<>>, <<line1, line2>>)

InitIss ==
    /\ IssIdle
    /\ ScrIdle /\ ZonIdle /\ CatIdle /\ threads = None /\ loop = None
    /\ CallIdle
    /\ ApiIdle

\* one call of _fetch_fresh_iss_tle; issOut keeps what the call saw and did
FetchIss ==
    \E outcome \in IssOutcomes :
        LET calls == IF issOut = None THEN 0 ELSE issOut.calls
            r == fetch_fresh_iss_tle(outcome)
        IN  /\ calls < MaxIssCalls
            /\ iss_tle_cache' = r.cache
            /\ cache_valid_until' = r.valid_until
            /\ issOut' = [calls |-> calls + 1, at |-> now,
                          before |-> [cache |-> iss_tle_cache,
                                      valid_until |-> cache_valid_until],
                          outcome |-> IF r.fetched THEN outcome ELSE FetchFailed,
                          fetched |-> r.fetched, error |-> r.error,
                          result |-> r.result]
            /\ UNCHANGED <<scrVars, zonVars, catVars, threads, loop>>
            /\ UNCHANGED apiVars
            /\ UNCHANGED callVars

\* a minute passes
IssTick ==
    /\ now < MaxIssMinutes
    /\ now' = now + 1
    /\ UNCHANGED <<sources, fusion_history, ca_hbr, events, resp, nops>>
    /\ UNCHANGED callVars
    /\ UNCHANGED libVars

NextIss ==
    \/ FetchIss
    \/ IssTick

SpecIss == InitIss /\ [][NextIss]_vars

\* no line of the response holds the ISS name
NoIssEntry(lines) == \A k \in 1..Len(lines) : lines[k].text # IssName

\* C28: no call of _fetch_fresh_iss_tle raises; a call whose fetch fails or
\* whose response has no ISS entry returns the hardcoded lines and leaves the
\* cache and its validity as they were; a call made while a cached entry is
\* valid, i.e. less than 5 minutes after it was fetched, returns the cached
\* lines without a fetch.
C28_FallbackNeverRaises ==
    issOut # None
    => /\ issOut.error = <<>>
       /\ (issOut.fetched /\ (~issOut.outcome.ok \/ NoIssEntry(issOut.outcome.lines)))
          => /\ issOut.result = Hardcoded
             /\ iss_tle_cache = issOut.before.cache
             /\ cache_valid_until = issOut.before.valid_until
       /\ (issOut.before.cache # None /\ issOut.at - issOut.before.cache[3] < IssValidMinutes)
          => /\ ~issOut.fetched
             /\ issOut.result = <<issOut.before.cache[1], issOut.before.cache[2]>>
             /\ iss_tle_cache = issOut.before.cache
             /\ cache_valid_until = issOut.before.valid_until

\* the fetch fails over a cached entry that has expired: the hardcoded lines
\* are returned and the expired entry stays
C28_Witness ==
    /\ issOut # None
    /\ issOut.fetched
    /\ ~issOut.outcome.ok
    /\ issOut.before.cache # None
    /\ issOut.result = Hardcoded
    /\ iss_tle_cache = issOut.before.cache

(***************************************************************************)
(* The search loop of closest_approach, step by step (specifications       *)
(* SpecLoop and SpecLoopFair), src/src/ssa/ca/conjunction.py 49-63.        *)
(* t, window_s and step_s are floats: here whole numbers with a mantissa   *)
(* of MantBits bits (binary64 has 53) and exponents up to MaxExponent,     *)
(* sums rounded to nearest, ties to even, overflow to infinity.            *)
(***************************************************************************)
MantBits == 3
MaxExponent == 2

\* the largest finite float, and float("inf")
FloatMax == (2^MantBits - 1) * 2^MaxExponent
FInf == 4 * FloatMax

\* the float nearest to the whole number n >= 0
RoundNonNegative(n) ==
    LET e == CHOOSE k \in 0..(MaxExponent + 2) :
                 /\ n < 2^(MantBits + k)
                 /\ \A j \in 0..(k - 1) : n >= 2^(MantBits + j)
        q == 2^e
        lower == (n \div q) * q
        rem == n - lower
        rounded == IF 2 * rem < q THEN lower
                   ELSE IF 2 * rem > q THEN lower + q
                   ELSE IF (lower \div q) % 2 = 0 THEN lower
                   ELSE lower + q
    IN  IF rounded > FloatMax THEN FInf ELSE rounded

FloatRound(n) == IF n >= 0 THEN RoundNonNegative(n) ELSE -RoundNonNegative(-n)

\* a + b for a finite b
FloatAdd(a, b) == IF a = FInf \/ a = -FInf THEN a ELSE FloatRound(a + b)

\* the least whole number whose successor is not a float
AbsorbAt == 2^MantBits

\* windows: negative, empty, short, beyond AbsorbAt, infinite
LoopWindows == {-1, 0, 3, 6, AbsorbAt + 2, FInf}
LoopSteps == {-1, 0, 1, 2, 3}

\* "t = 0.0" before the loop
InitLoop ==
    /\ loop \in [window_s : LoopWindows, step_s : LoopSteps, t : {0},
                 evaluated : {{}}, done : {FALSE}]
    /\ ScrIdle /\ ZonIdle /\ CatIdle /\ IssIdle /\ threads = None
    /\ CallIdle
    /\ ApiIdle

\* "while t <= window_s"
LoopTest(t, window_s) == t <= window_s

\* an increment that is forgotten
NextInstantSame(t, step_s) == t

\* "t += step_s"
NextInstant(t, step_s) == FloatAdd(t, step_s)

LoopUnchanged ==
    /\ UNCHANGED <<scrVars, zonVars, catVars, issVars, threads>>
    /\ UNCHANGED apiVars
    /\ UNCHANGED callVars

\* one pass through the body: the pair is evaluated at t (lines 51-60, which
\* leave t, window_s and step_s alone), then t advances
LoopIterate ==
    /\ ~loop.done
    /\ LoopTest(loop.t, loop.window_s)
    /\ loop' = [loop EXCEPT !.evaluated = @ \cup {loop.t},
                            !.t = NextInstant(loop.t, loop.step_s)]
    /\ LoopUnchanged

\* the test fails: "return best"
LoopExit ==
    /\ ~loop.done
    /\ ~LoopTest(loop.t, loop.window_s)
    /\ loop' = [loop EXCEPT !.done = TRUE]
    /\ LoopUnchanged

NextLoop ==
    \/ LoopIterate
    \/ LoopExit

SpecLoop == InitLoop /\ [][NextLoop]_vars

\* the thread that runs the loop keeps running
SpecLoopFair ==
    InitLoop /\ [][NextLoop]_vars /\ WF_vars(LoopIterate) /\ WF_vars(LoopExit)

\* the instants k * step_s, k = 0, 1, ..., that do not exceed window_s
Multiples(window_s, step_s) ==
    { k * step_s : k \in { j \in 0..FloatMax : j * step_s <= window_s } }

\* C29, as claimed: with step_s > 0 the loop ends, for every window_s, having
\* evaluated exactly the instants 0, step_s, 2 step_s, ... not exceeding
\* window_s; with step_s <= 0 and window_s >= 0 it never ends.
C29_TerminatesForPositiveStep ==
    /\ (loop.step_s > 0) ~> loop.done
    /\ []((loop.done /\ loop.step_s > 0 /\ loop.window_s # FInf)
          => loop.evaluated = Multiples(loop.window_s, loop.step_s))
    /\ []((loop.step_s <= 0 /\ loop.window_s >= 0) => ~loop.done)

\* no float t in [0, window_s] swallows the step: t + step_s > t
NoAbsorption(window_s, step_s) ==
    \A t \in 0..window_s : FloatRound(t) = t => FloatAdd(t, step_s) > t

\* every multiple of step_s up to the first beyond window_s is a float
ExactSums(window_s, step_s) ==
    \A k \in 0..(window_s \div step_s + 1) : FloatRound(k * step_s) = k * step_s

\* C29, amended: the loop ends when window_s < 0, and when step_s > 0,
\* window_s is finite and no float in [0, window_s] swallows the step; it
\* then has evaluated instants of [0, window_s] only, 0 among them if
\* window_s >= 0, and exactly the multiples of step_s not exceeding window_s
\* if those sums are exact.  It never ends when window_s >= 0 and step_s <= 0,
\* or window_s is infinite, or a float in [0, window_s] swallows the step.
C29_TerminatesUnlessAbsorbed ==
    /\ (loop.window_s < 0
        \/ (loop.step_s > 0 /\ loop.window_s # FInf
            /\ NoAbsorption(loop.window_s, loop.step_s))) ~> loop.done
    /\ []((loop.window_s >= 0
           /\ (loop.step_s <= 0 \/ loop.window_s = FInf
               \/ ~NoAbsorption(loop.window_s, loop.step_s)))
          => ~loop.done)
    /\ [](loop.done
          => /\ \A t \in loop.evaluated : 0 <= t /\ t <= loop.window_s
             /\ loop.window_s >= 0 => 0 \in loop.evaluated
             /\ (loop.window_s >= 0 /\ ExactSums(loop.window_s, loop.step_s))
                => loop.evaluated = Multiples(loop.window_s, loop.step_s))

\* the loop has ended after four or more instants
C29_Witness ==
    /\ loop # None
    /\ loop.done
    /\ loop.step_s > 0
    /\ Cardinality(loop.evaluated) >= 4
====
